---- MODULE Spec2Model ----
(***************************************************************************)
(* A model of the module loader of src/HasteModuleLoader/HasteModuleLoader.js *)
(* (class Loader): the resolver, the mock policy (_shouldMock), the two     *)
(* registries, the executor (_execModule), the automocker (_generateMock)   *)
(* and the per-module runtime API.  Module evaluation is synchronous and    *)
(* nested; the model keeps the JavaScript call stack as the variable        *)
(* "stack" and runs one statement of a module's top level per step.         *)
(***************************************************************************)
EXTENDS Integers, Sequences, FiniteSets, TLC

(***************************************************************************)
(* Bounds.                                                                 *)
(***************************************************************************)
\* Number of calls the test file makes into the loader.
MaxCalls == 3

\* The nested calls the host's call stack has room for.
MaxDepth == 6

(***************************************************************************)
(* The world the loader runs in: the resource map, the file system and the *)
(* text of the module files.  It is read-only to the loader.               *)
(***************************************************************************)
Null == "null"
Thrown == "thrown"

\* The path of the test file; the calls of the test come from there.
TestPath == "/p/t.js"

Names ==
  {"A", "B", "M", "N", "E", "R", "path", "V", "G", "U",
   "L", "J", "Z", "S", "T", "K", "D", "X", "sub", "out", "W", "P", "Q"}

\* resolve.isCore(moduleName)
IsCore(moduleName) == moduleName \in {"path"}

\* IS_PATH_BASED_MODULE_NAME.test(moduleName): no request of this world is
\* written as a path.
IsPathBasedModuleName(moduleName) == moduleName \in {}

\* this._resourceMap.getResource('JS', name): the path of the resource.
ResourceJS(name) ==
  CASE name = "A" -> "/p/A.js"
    [] name = "B" -> "/p/B.js"
    [] name = "M" -> "/p/M.js"
    [] name = "N" -> "/p/N.js"
    [] name = "E" -> "/p/E.js"
    [] name = "R" -> "/p/R.js"
    [] name = "L" -> "/p/L.js"
    [] name = "Z" -> "/p/Z.js"
    [] name = "K" -> "/p/K.js"
    [] name = "D" -> "/p/D.js"
    [] OTHER -> Null

\* this._resourceMap.getResource('JSMock', name): the path of the resource.
ResourceJSMock(name) ==
  CASE name = "G" -> "/p/__mocks__/G.js"
    [] name = "U" -> "/p/__mocks__/U.js"
    [] name = "P" -> "/p/__mocks__/P.js"
    [] name = "Q" -> "/p/__mocks__/Q.js"
    [] OTHER -> Null

\* this._resourceMap.getResourceByPath(path): <<type, id>> of the resource.
ResourceByPath(path) ==
  CASE path = "/p/A.js" -> <<"JS", "A">>
    [] path = "/p/B.js" -> <<"JS", "B">>
    [] path = "/p/M.js" -> <<"JS", "M">>
    [] path = "/p/N.js" -> <<"JS", "N">>
    [] path = "/p/E.js" -> <<"JS", "E">>
    [] path = "/p/R.js" -> <<"JS", "R">>
    [] path = "/p/L.js" -> <<"JS", "L">>
    [] path = "/p/Z.js" -> <<"JS", "Z">>
    [] path = "/p/K.js" -> <<"JS", "K">>
    [] path = "/p/D.js" -> <<"JS", "D">>
    [] path = "/p/package.json" -> <<"ProjectConfiguration", "pkg">>
    [] path = "/p/sub/package.json" -> <<"ProjectConfiguration", "sub">>
    [] path = "/q/p/package.json" -> <<"ProjectConfiguration", "out">>
    [] path = "/p/__mocks__/G.js" -> <<"JSMock", "G">>
    [] path = "/p/__mocks__/U.js" -> <<"JSMock", "U">>
    [] path = "/p/__mocks__/P.js" -> <<"JSMock", "P">>
    [] path = "/p/__mocks__/Q.js" -> <<"JSMock", "Q">>
    [] OTHER -> <<Null, Null>>

\* resolve.sync(moduleName, {basedir, ...}): node's resolution from the
\* directory of the importer; Null when it throws.  A core name resolves to
\* itself, './index.js' to the file of that name in basedir.
ResolveSync(basedir, moduleName) ==
  CASE moduleName = "path" -> "path"
    [] moduleName = "W" /\ basedir \in {"/p", "/p/__mocks__", "/p/node_modules"}
         -> "/p/node_modules/W.js"
    [] moduleName = "W" /\ basedir \in {"/p/sub", "/p/sub/node_modules"}
         -> "/p/sub/node_modules/W.js"
    [] moduleName = "./index.js" /\ basedir = "/p/sub" -> "/p/sub/index.js"
    [] moduleName = "./index.js" /\ basedir = "/q/p" -> "/q/p/index.js"
    [] moduleName = "V" -> "/vendor/V.js"
    [] moduleName = "U" -> "/p/node_modules/U.js"
    [] moduleName = "J" -> "/p/node_modules/J.json"
    [] OTHER -> Null

\* path.dirname(currPath)
Dirname(path) ==
  CASE path \in {"/p/__mocks__/G.js", "/p/__mocks__/U.js",
                 "/p/__mocks__/P.js", "/p/__mocks__/Q.js"} -> "/p/__mocks__"
    [] path \in {"/p/node_modules/U.js", "/p/node_modules/W.js",
                 "/p/node_modules/J.json"} -> "/p/node_modules"
    [] path = "/p/sub/node_modules/W.js" -> "/p/sub/node_modules"
    [] path = "/vendor/V.js" -> "/vendor"
    [] path \in {"/p/sub/package.json", "/p/sub/index.js"} -> "/p/sub"
    [] path \in {"/q/p/package.json", "/q/p/index.js"} -> "/q/p"
    [] OTHER -> "/p"

\* The characters of the directory names of this world.
Characters(dirname) ==
  CASE dirname = "/p" -> <<"/", "p">>
    [] dirname = "/p/sub" -> <<"/", "p", "/", "s", "u", "b">>
    [] dirname = "/q/p" -> <<"/", "q", "/", "p">>
    [] dirname = "/vendor" -> <<"/", "v", "e", "n", "d", "o", "r">>
    [] dirname = "/p/__mocks__" ->
         <<"/", "p", "/", "_", "_", "m", "o", "c", "k", "s", "_", "_">>
    [] dirname = "/p/node_modules" ->
         <<"/", "p", "/", "n", "o", "d", "e", "_", "m", "o", "d", "u", "l",
           "e", "s">>
    [] dirname = "/p/sub/node_modules" ->
         <<"/", "p", "/", "s", "u", "b", "/", "n", "o", "d", "e", "_", "m",
           "o", "d", "u", "l", "e", "s">>

\* String.prototype.indexOf: the index, counted from 0, of the first
\* occurrence of searchString in string, -1 when there is none.
IndexOf(string, searchString) ==
  LET at == {i \in 0..(Len(string) - Len(searchString)) :
               SubSeq(string, i + 1, i + Len(searchString)) = searchString}
  IN IF at = {} THEN -1 ELSE CHOOSE i \in at : \A j \in at : i <= j

\* modulePath.indexOf(VENDOR_PATH) === 0
UnderVendorPath(modulePath) == modulePath \in {"/vendor/V.js"}

\* fs.realpathSync(modulePath): /p/L.js is a symbolic link.
RealpathSync(modulePath) ==
  IF modulePath = "/p/L.js" THEN "/real/L.js" ELSE modulePath

\* fs.existsSync(path.join(dirname, '__mocks__', basename)): the sibling
\* manual mock of a file, Null when there is none.
SiblingManualMock(modulePath) == Null

\* path.extname(modulePath)
Extname(modulePath) ==
  IF modulePath = "/p/node_modules/J.json" THEN ".json" ELSE ".js"

\* config.unmockedModulePathPatterns, each pattern given by the paths of
\* this world that it matches.
UnmockPattern == {"/p/N.js", "/p/B.js", "/real/L.js", "/p/node_modules/W.js"}

\* config.moduleNameMapper: the declared mappings [pattern, canonical name],
\* each pattern given by the names of this world that it matches.
ModuleNameMapper == << <<{"S"}, "K">>, <<{"T"}, "K">> >>

\* The constructor (lines 123-128) stores the mappings in the object
\* _mappedModuleNames keyed by canonical name: a key keeps the place of its
\* first assignment and the pattern of its last one.  The object is given
\* as the sequence of its entries in the order a for-in loop sees them.
LastPattern(canonical) ==
  ModuleNameMapper[CHOOSE i \in 1..Len(ModuleNameMapper) :
    /\ ModuleNameMapper[i][2] = canonical
    /\ \A j \in (i + 1)..Len(ModuleNameMapper) :
         ModuleNameMapper[j][2] # canonical][1]
Assigned ==
  [i \in 1..Len(ModuleNameMapper) |->
     [at |-> i, key |-> ModuleNameMapper[i][2],
      regex |-> LastPattern(ModuleNameMapper[i][2])]]
FirstDeclared(entry) ==
  \A j \in 1..(entry.at - 1) : ModuleNameMapper[j][2] # entry.key
MappedModuleNames == SelectSeq(Assigned, FirstDeclared)

\* moduleMocker.getMetadata(exports) returns null for the exports of these
\* files.
NoMetadataFiles == {"/p/Z.js"}

\* The top level of each module file: the statements that reach the loader.
Stmt(op, name) == [op |-> op, name |-> name]

Body(filename) ==
  CASE filename = "/p/A.js" -> <<Stmt("require", "B")>>
    [] filename = "/p/B.js" -> <<Stmt("require", "A")>>
    [] filename = "/p/M.js" -> <<Stmt("requireActual", "N"), Stmt("mutate", Null)>>
    [] filename = "/p/E.js" -> <<Stmt("throw", Null)>>
    [] filename = "/p/R.js" -> <<Stmt("resetModuleRegistry", Null)>>
    [] filename = "/p/D.js" -> <<Stmt("requireMock", "G")>>
    [] filename = "/p/sub/index.js" -> <<Stmt("require", "W")>>
    [] filename = "/p/__mocks__/P.js" -> <<Stmt("require", "Q")>>
    [] filename = "/p/__mocks__/Q.js" -> <<Stmt("require", "P")>>
    [] OTHER -> <<>>

\* resource.requiredModules: the names the resource map found required in
\* the text of the file, wherever they stand in it.
RequiredModules(path) ==
  CASE path = "/p/A.js" -> <<"B">>
    [] path = "/p/B.js" -> <<"A">>
    [] path = "/p/M.js" -> <<"N">>
    [] path = "/p/D.js" -> <<"N", "X", "G", "path", "N">>
    [] path = "/p/__mocks__/G.js" -> <<"D">>
    [] path = "/p/__mocks__/P.js" -> <<"Q">>
    [] path = "/p/__mocks__/Q.js" -> <<"P">>
    [] OTHER -> <<>>

\* The modules a test file works with; a test uses one group.
Profiles ==
  { {"A", "B"}, {"M", "N"}, {"E", "R", "N"}, {"path", "V"}, {"G", "U"},
    {"L", "J"}, {"Z", "out"}, {"S", "T"}, {"sub", "W"}, {"P", "Q"} }

\* The modules of a tool that also asks for the dependency graph.
DepProfiles == { {"D", "X", "G"} }

\* The values a test hands to setMock.
SlotValues == {"e1", "e2"}


(***************************************************************************)
(* The state of one Loader.                                                *)
(***************************************************************************)
VARIABLES
  moduleRegistry,                 \* this._moduleRegistry: path -> exports
  mockRegistry,                   \* this._mockRegistry: path -> exports
  regId,                          \* identity of the registry objects in use
  nextReg,                        \* identity of the next fresh registry pair
  explicitShouldMock,             \* this._explicitShouldMock: ModuleID -> BOOLEAN
  explicitlySetMocks,             \* this._explicitlySetMocks: ModuleID -> exports
  shouldAutoMock,                 \* this._shouldAutoMock
  configShouldMockModuleNames,    \* this._configShouldMockModuleNames
  mockMetaDataCache,              \* this._mockMetaDataCache: path -> shape
  currentlyExecutingModulePath,   \* this._currentlyExecutingModulePath
  isCurrentlyExecutingManualMock, \* this._isCurrentlyExecutingManualMock
  envGlobal,                      \* this._environment.global is truthy
  unmockListRegExps,              \* this._unmockListRegExps
  stack,                          \* the JavaScript call stack inside the loader
  ret,                            \* the value the last finished call returned
  populated,                      \* exports objects whose top level has finished
  mutated,                        \* exports objects written to by another module
  generation,                     \* history: number of resetModuleRegistry calls
  execLog,                        \* history: the files requireModule loaded
  lastExplicit,                   \* history: last of mock/dontMock per ModuleID
  lastSetMock,                    \* history: last setMock value per ModuleID
  resetInIsolation,               \* history: the last reset came from an isolated evaluation
  lastCall,                       \* history: the last call of the test file
  calls,                          \* number of calls the test file has made
  profile,                        \* the module names the test file uses
  reverseDependencyMap,           \* this._reverseDependencyMap, <<>> for null
  paths                           \* the paths the last dependency query returned

vars ==
  << moduleRegistry, mockRegistry, regId, nextReg, explicitShouldMock,
     explicitlySetMocks, shouldAutoMock, configShouldMockModuleNames,
     mockMetaDataCache, currentlyExecutingModulePath,
     isCurrentlyExecutingManualMock, envGlobal, unmockListRegExps, stack, ret,
     populated, mutated, generation, execLog, lastExplicit, lastSetMock,
     resetInIsolation, lastCall, calls, profile, reverseDependencyMap,
     paths >>

\* The loader's state as one record, so that an operation is a function from
\* state to state and operations compose the way the methods call each other.
St ==
  [ moduleRegistry |-> moduleRegistry,
    mockRegistry |-> mockRegistry,
    regId |-> regId,
    nextReg |-> nextReg,
    explicitShouldMock |-> explicitShouldMock,
    explicitlySetMocks |-> explicitlySetMocks,
    shouldAutoMock |-> shouldAutoMock,
    configShouldMockModuleNames |-> configShouldMockModuleNames,
    mockMetaDataCache |-> mockMetaDataCache,
    currentlyExecutingModulePath |-> currentlyExecutingModulePath,
    isCurrentlyExecutingManualMock |-> isCurrentlyExecutingManualMock,
    envGlobal |-> envGlobal,
    unmockListRegExps |-> unmockListRegExps,
    stack |-> stack,
    ret |-> ret,
    populated |-> populated,
    mutated |-> mutated,
    generation |-> generation,
    execLog |-> execLog,
    lastExplicit |-> lastExplicit,
    lastSetMock |-> lastSetMock,
    resetInIsolation |-> resetInIsolation ]

Becomes(s) ==
  /\ moduleRegistry' = s.moduleRegistry
  /\ mockRegistry' = s.mockRegistry
  /\ regId' = s.regId
  /\ nextReg' = s.nextReg
  /\ explicitShouldMock' = s.explicitShouldMock
  /\ explicitlySetMocks' = s.explicitlySetMocks
  /\ shouldAutoMock' = s.shouldAutoMock
  /\ configShouldMockModuleNames' = s.configShouldMockModuleNames
  /\ mockMetaDataCache' = s.mockMetaDataCache
  /\ currentlyExecutingModulePath' = s.currentlyExecutingModulePath
  /\ isCurrentlyExecutingManualMock' = s.isCurrentlyExecutingManualMock
  /\ envGlobal' = s.envGlobal
  /\ unmockListRegExps' = s.unmockListRegExps
  /\ stack' = s.stack
  /\ ret' = s.ret
  /\ populated' = s.populated
  /\ mutated' = s.mutated
  /\ generation' = s.generation
  /\ execLog' = s.execLog
  /\ lastExplicit' = s.lastExplicit
  /\ lastSetMock' = s.lastSetMock
  /\ resetInIsolation' = s.resetInIsolation

(***************************************************************************)
(* Values and JavaScript objects.                                          *)
(***************************************************************************)
\* The only element of a set of one element: { e(x) : x \in {v} } names v
\* once, the way a const does.
Only(S) == CHOOSE x \in S : TRUE

\* An object used as a map: {} and hasOwnProperty.call(obj, key).
EmptyObject == <<>>
Has(obj, key) == key \in DOMAIN obj
Put(obj, key, value) == (key :> value) @@ obj

\* A value: its kind k, the file or name p it comes from, the registry pair
\* r in use when it was created (its identity), and for an automock the
\* shape s it was generated from.
Value(k, p, r, s) == [k |-> k, p |-> p, r |-> r, s |-> s]
\* moduleObj.exports of a module file evaluated by the loader.
ExportsOf(filename, r) == Value("exports", filename, r, Null)
\* moduleObj.exports of the module object requireMock makes for a manual
\* mock (lines 669-674): another object than the one requireModule makes for
\* the same file.
ManualExportsOf(filename, r) == Value("manual", filename, r, Null)
\* What the host's own require returns (core, vendor and .node modules).
HostModule(name) == Value("host", name, 0, Null)
\* JSON.parse of a .json file.
JsonValue(filename, r) == Value("json", filename, r, Null)
\* moduleMocker.generateFromMetadata(shape)
GenerateFromMetadata(modulePath, r, shape) == Value("auto", modulePath, r, shape)
\* An object of the test handed to setMock.
SlotValue(e) == Value("slot", e, 0, Null)
ThrownValue == Value(Thrown, Null, 0, Null)
Undefined == Value("undefined", Null, 0, Null)

\* moduleMocker.getMetadata(exports): the shape of the exports as they are
\* now, Null when the mocker cannot describe what the module assigned to
\* them.
GetMetadata(s, exports) ==
  IF exports.k \in {"exports", "manual"}
  THEN IF exports \notin s.populated THEN "empty"
       ELSE IF exports.p \in NoMetadataFiles THEN Null ELSE "full"
  ELSE "full"

\* moduleMocker.getMetadata({})
SentinelMetadata == "empty"


(***************************************************************************)
(* The resolver.                                                           *)
(***************************************************************************)
\* /\//.test(resourceName), /\.js$/.test(resourceName) and resourceName +
\* '.js' for the names of this world: none holds a slash.
HasSlash(resourceName) == resourceName \in {}
EndsWithJs(resourceName) == resourceName \in {}
AppendJs(resourceName) == Null

\* _resolveStubModuleName(moduleName): the canonical name of the first
\* mapping whose pattern matches, Null (undefined) when none does.
ResolveStubModuleName(moduleName) ==
  LET Matches(entry) == moduleName \in entry.regex
      matching == SelectSeq(MappedModuleNames, Matches)
  IN IF matching = <<>> THEN Null ELSE matching[1].key

\* _getResource(resourceType, resourceName) as the code computes it: the path
\* of the resource found, Null (undefined) when there is none.
FindResource(resourceType, resourceName) ==
  Only({ IF resource = Null /\ resourceType = "JSMock"
         THEN Only({ IF stub # Null THEN ResourceJS(stub) ELSE resource :
                       stub \in {ResolveStubModuleName(resourceName)} })
         ELSE resource :
           resource \in
             { Only({ IF /\ direct = Null
                         /\ resourceType = "JS"
                         /\ HasSlash(resourceName)
                         /\ ~EndsWithJs(resourceName)
                      THEN ResourceJS(AppendJs(resourceName))
                      ELSE direct :
                        direct \in {IF resourceType = "JS"
                                    THEN ResourceJS(resourceName)
                                    ELSE ResourceJSMock(resourceName)} }) } })

\* The resource map and the name mapper are fixed when the loader is built:
\* the answer of _getResource for every type and name of this world.
ResourceTypes == {"JS", "JSMock"}

ResourcesFound ==
  [resourceType \in ResourceTypes |->
     [resourceName \in Names |-> FindResource(resourceType, resourceName)]]

GetResource(resourceType, resourceName) ==
  IF resourceType \in ResourceTypes /\ resourceName \in Names
  THEN ResourcesFound[resourceType][resourceName]
  ELSE FindResource(resourceType, resourceName)

\* getAllResourcesByType('ProjectConfiguration'), by the name in the
\* manifest: the path of the package.json, Null when no manifest has the
\* name.
ProjectConfigByName(moduleProjectPart) ==
  CASE moduleProjectPart = "pkg" -> "/p/package.json"
    [] moduleProjectPart = "sub" -> "/p/sub/package.json"
    [] moduleProjectPart = "out" -> "/q/p/package.json"
    [] OTHER -> Null

\* moduleName.split('/').shift(): the names of this world hold no slash.
ModuleProjectPart(moduleName) == moduleName

\* resourceDirname.indexOf(basedir) > 0
IndexOfIsPositive(resourceDirname, basedir) ==
  IndexOf(Characters(resourceDirname), Characters(basedir)) > 0

\* _moduleNameToPath(resource.path, './' + subModulePath) for the manifest
\* at manifestPath: no manifest names a main file and no name holds a sub
\* path, so './index.js' is asked for; the resource map has no resource of
\* that name and the request ends in resolve.sync from the directory of the
\* manifest.  Null: /p has no index.js.
ManifestTarget(manifestPath, moduleName) ==
  ResolveSync(Dirname(manifestPath), "./index.js")

\* _nodeModuleNameToPath(currPath, moduleName): Null when it throws.
NodeModuleNameToPath(currPath, moduleName) ==
  LET basedir == Dirname(currPath)
      resolved == ResolveSync(basedir, moduleName)
      resource == ProjectConfigByName(ModuleProjectPart(moduleName))
  IN IF resolved # Null THEN resolved
     ELSE IF resource = Null THEN Null
     ELSE IF IndexOfIsPositive(Dirname(resource), basedir) THEN Null
     ELSE ManifestTarget(resource, moduleName)

\* _moduleNameToPath(currPath, moduleName): Null when it throws.
ModuleNameToPath(currPath, moduleName) ==
  Only({ IF resource = Null THEN NodeModuleNameToPath(currPath, moduleName)
         ELSE resource :
           resource \in {GetResource("JS", moduleName)} })

\* path.delimiter of the host (POSIX).
Delimiter == ":"

\* The text the value null reads as where a string is made of it.
NullText == "'null'"

\* String(value), as + applies it to a part of a ModuleID and [] to a
\* property key: the value null becomes the text null, a string is itself.
StringOf(value) == IF value = Null THEN NullText ELSE value

\* A string as the sequence of its pieces: the delimiters in it and the
\* texts between them.  One file name of the world holds a delimiter.
Pieces(string) ==
  IF string = "/p/a:b.js" THEN <<"/p/a", Delimiter, "b.js">> ELSE <<string>>

\* moduleType + delimiter + realAbsPath + delimiter + mockAbsPath (lines
\* 368-369), as the pieces of the string.
ModuleID(moduleType, realAbsPath, mockAbsPath) ==
  Pieces(moduleType) \o <<Delimiter>> \o Pieces(StringOf(realAbsPath))
    \o <<Delimiter>> \o Pieces(StringOf(mockAbsPath))

\* string.split(separator): the texts between the separators, each the
\* sequence of its pieces (empty for the empty text).
RECURSIVE Split(_, _)
Split(string, separator) ==
  IF \A i \in 1..Len(string) : string[i] # separator THEN <<string>>
  ELSE LET at == CHOOSE i \in 1..Len(string) :
                   /\ string[i] = separator
                   /\ \A j \in 1..(i - 1) : string[j] # separator
       IN <<SubSeq(string, 1, at - 1)>>
            \o Split(SubSeq(string, at + 1, Len(string)), separator)

\* The text of a string that holds no delimiter.
Text(string) == IF string = <<>> THEN "" ELSE string[1]

\* What stands for a ModuleID when _getNormalizedModuleID throws.
NoModuleID == <<>>

\* _getNormalizedModuleID lines 353-365: the parts still null are looked up
\* in the resource map under moduleName.
ModuleIDByName(moduleName, realAbsPath, mockAbsPath) ==
  ModuleID("user",
           IF realAbsPath = Null THEN GetResource("JS", moduleName)
           ELSE realAbsPath,
           IF mockAbsPath = Null THEN GetResource("JSMock", moduleName)
           ELSE mockAbsPath)

\* _getNormalizedModuleID lines 333-350: the name is resolved to
\* absolutePath (Null: the resolver threw) and, when the resource map knows
\* the file, stands for that resource.
ModuleIDByPath(moduleName, absolutePath) ==
  IF absolutePath = Null THEN NoModuleID
  ELSE Only({ IF resource[1] = Null
              THEN ModuleIDByName(moduleName, Null, Null)
              ELSE ModuleIDByName(
                     resource[2],
                     IF resource[1] = "JS" THEN absolutePath ELSE Null,
                     IF resource[1] = "JSMock" THEN absolutePath ELSE Null) :
                resource \in {ResourceByPath(absolutePath)} })

\* _getNormalizedModuleID(currPath, moduleName) as the code computes it:
\* NoModuleID when it throws.
NormalizeModuleID(currPath, moduleName) ==
  IF IsCore(moduleName) THEN ModuleID("node", moduleName, Null)
  ELSE IF \/ IsPathBasedModuleName(moduleName)
          \/ /\ GetResource("JS", moduleName) = Null
             /\ GetResource("JSMock", moduleName) = Null
  THEN Only({ ModuleIDByPath(moduleName, absolutePath) :
                absolutePath \in {ModuleNameToPath(currPath, moduleName)} })
  ELSE ModuleIDByName(moduleName, Null, Null)

\* The files of the resource map a request can come from, and the test.
CurrPaths ==
  ({TestPath} \cup {ResourceJS(n) : n \in Names}
     \cup {ResourceJSMock(n) : n \in Names}) \ {Null}

\* The resource map and the file system do not change while the loader
\* lives: the answer of _getNormalizedModuleID for every such file and every
\* name of this world.
NormalizedModuleIDs ==
  [currPath \in CurrPaths |->
     [moduleName \in Names |-> NormalizeModuleID(currPath, moduleName)]]

GetNormalizedModuleID(currPath, moduleName) ==
  IF currPath \in CurrPaths /\ moduleName \in Names
  THEN NormalizedModuleIDs[currPath][moduleName]
  ELSE NormalizeModuleID(currPath, moduleName)

\* Every ModuleID a request of this world can have.
ModuleIDs ==
  { GetNormalizedModuleID(TestPath, n) : n \in Names } \ {NoModuleID}


(***************************************************************************)
(* The call stack.  A frame is a call that waits for a nested call:        *)
(*   "exec": _execModule running the top level of the file "path", about   *)
(*           to run statement pc, called from requireModule or requireMock *)
(*           (via), with the locals lastExecutingModulePath (lastPath) and *)
(*           origCurrExecutingManualMock (lastManual);                     *)
(*   "gen":  _generateMock waiting for requireModule (line 247), with the  *)
(*           locals modulePath (path), origMockRegistry, origModuleRegistry*)
(*           and, when requireMock called it, the key it will store under  *)
(*           (mpath); origReg and origMutated are history: the identity of *)
(*           the registries put aside and the objects written to so far.   *)
(***************************************************************************)
ExecFrame(filename, exports, via, lastPath, lastManual) ==
  [ t |-> "exec", path |-> filename, pc |-> 1, obj |-> exports, via |-> via,
    lastPath |-> lastPath, lastManual |-> lastManual,
    origMock |-> EmptyObject, origModule |-> EmptyObject, origReg |-> 0,
    origMutated |-> {}, mpath |-> Null ]

GenFrame(modulePath, via, mpath, origMock, origModule, origReg, origMutated) ==
  [ t |-> "gen", path |-> modulePath, pc |-> 0, obj |-> Undefined, via |-> via,
    lastPath |-> Null, lastManual |-> Null,
    origMock |-> origMock, origModule |-> origModule, origReg |-> origReg,
    origMutated |-> origMutated, mpath |-> mpath ]

Top(s) == s.stack[Len(s.stack)]
Pop(s) == [s EXCEPT !.stack = SubSeq(@, 1, Len(@) - 1)]

\* A call returns value to the frame below it.
Return(s, value) == [s EXCEPT !.ret = value]

\* An exception: nothing in the loader catches it, every frame is left
\* without running the rest of its code, and the test gets the exception.
Throw(s) == [s EXCEPT !.stack = <<>>, !.ret = ThrownValue]

\* A _generateMock is waiting for its isolated evaluation.
Isolated(stk) == \E i \in 1..Len(stk) : stk[i].t = "gen"

(***************************************************************************)
(* The methods of the Loader.  A method that leads to the evaluation of a  *)
(* module is an action: it ends in Becomes(s) for the state s in which the *)
(* call has returned, has thrown, or has pushed the frame of the nested    *)
(* evaluation.  Intermediate states are bound with \E over a one-element   *)
(* set.                                                                    *)
(***************************************************************************)

(***************************************************************************)
(* _execModule and requireModule.                                          *)
(***************************************************************************)
\* The code after the call of _execModule: requireModule line 768,
\* requireMock lines 678 and 687.
\* Variant: the exports of a manual mock are stored in both registries.
AfterExecModuleBothRegistries(s, filename, exports, via) ==
  IF via = "requireMock"
  THEN Return([s EXCEPT !.mockRegistry = Put(@, filename, exports),
                        !.moduleRegistry = Put(@, filename, exports)],
              exports)
  ELSE Return(s, exports)

AfterExecModule(s, filename, exports, via) ==
  IF via = "requireMock"
  THEN Return([s EXCEPT !.mockRegistry = Put(@, filename, exports)], exports)
  ELSE Return(s, exports)

\* _execModule lines 197-200: the executing path and manual-mock flag are
\* saved in the frame and set to the file; its top level starts.
EnterModule(s, filename, exports, via) ==
  [s EXCEPT
     !.stack = Append(@, ExecFrame(filename, exports, via,
                                   s.currentlyExecutingModulePath,
                                   s.isCurrentlyExecutingManualMock)),
     !.currentlyExecutingModulePath = filename,
     !.isCurrentlyExecutingManualMock = filename]

\* _execModule(moduleObj) up to the call of the module's top level: with a
\* disposed environment it returns at once; when the host's call stack is
\* full the call of the top level throws a RangeError.
ExecModule(s, filename, exports, via) ==
  IF ~s.envGlobal
  THEN AfterExecModule(s, filename, exports, via)
  ELSE IF Len(s.stack) >= MaxDepth
  THEN Throw([s EXCEPT !.currentlyExecutingModulePath = filename,
                       !.isCurrentlyExecutingManualMock = filename])
  ELSE EnterModule(s, filename, exports, via)

\* _execModule lines 222-223: the top level returned.
LeaveModule(s, frame) ==
  [s EXCEPT !.isCurrentlyExecutingManualMock = frame.lastManual,
            !.currentlyExecutingModulePath = frame.lastPath,
            !.populated = @ \cup {frame.obj}]

\* _execModule after the top level returned, then the caller's code after
\* the call.
ExecModuleReturn(s) ==
  \E f \in {Top(s)} :
  \E s1 \in {LeaveModule(Pop(s), f)} :
    Becomes(AfterExecModule(s1, f.path, f.obj, f.via))

\* History: requireModule loads the file at modulePath (lines 757-764: the
\* JSON.parse of a .json file, the host's require of a .node file, or
\* _execModule).
LogExec(s, modulePath) ==
  [s EXCEPT !.execLog =
     Put(@, <<s.generation, s.regId, modulePath>>,
         IF Has(s.execLog, <<s.generation, s.regId, modulePath>>)
         THEN s.execLog[<<s.generation, s.regId, modulePath>>] + 1
         ELSE 1)]

\* Variant: only a module whose top level has finished counts as registered.
RegisteredWhenPopulated(s, modulePath) ==
  Has(s.moduleRegistry, modulePath)
    /\ s.moduleRegistry[modulePath] \in s.populated

\* moduleObj = this._moduleRegistry[modulePath]; if (!moduleObj) (746-747)
Registered(s, modulePath) == Has(s.moduleRegistry, modulePath)

\* Variant: the module object is not registered before the evaluation.
PreallocateOmitted(s, modulePath, moduleObj) == s

\* requireModule lines 751-756: the pre-allocated module object is
\* registered before the module is evaluated.
Preallocate(s, modulePath, moduleObj) ==
  [s EXCEPT !.moduleRegistry = Put(@, modulePath, moduleObj)]

\* requireModule lines 715-726: the manual mock stands in for a module the
\* resource map does not know.
ManualMockStandsIn(s, moduleID, moduleName) ==
  /\ GetResource("JS", moduleName) = Null
  /\ \E manualMockResource \in {GetResource("JSMock", moduleName)} :
       /\ manualMockResource # Null
       /\ manualMockResource # s.isCurrentlyExecutingManualMock
  /\ ~(Has(s.explicitShouldMock, moduleID) /\ s.explicitShouldMock[moduleID] = FALSE)

\* requireModule lines 745-768: the registry lookup and, on a miss, the
\* pre-allocated module object and its evaluation.
LoadModule(s, modulePath) ==
  IF Registered(s, modulePath)
  THEN Becomes(Return(s, s.moduleRegistry[modulePath]))
  ELSE
    \E moduleObj \in {ExportsOf(modulePath, s.regId)} :
    \E s1 \in {Preallocate(s, modulePath, moduleObj)} :
    \E s2 \in {LogExec(s1, modulePath)} :
      IF Extname(modulePath) = ".json"
      THEN IF ~s.envGlobal THEN Becomes(Throw(s2))
           ELSE \E v \in {JsonValue(modulePath, s.regId)} :
                  Becomes(Return(Preallocate(s2, modulePath, v), v))
      ELSE IF Extname(modulePath) = ".node"
      THEN \E v \in {HostModule(modulePath)} :
             Becomes(Return(Preallocate(s2, modulePath, v), v))
      ELSE Becomes(ExecModule(s2, modulePath, moduleObj, "requireModule"))

\* requireModule lines 715-734: the path requireModule loads, Null when
\* _moduleNameToPath throws.
RealModulePath(s, currPath, moduleName, moduleID) ==
  IF ManualMockStandsIn(s, moduleID, moduleName)
  THEN GetResource("JSMock", moduleName)
  ELSE ModuleNameToPath(currPath, moduleName)

\* Variant: a built-in is loaded like any other module.
RequireModuleNoCore(s, currPath, moduleName) ==
  \E moduleID \in {GetNormalizedModuleID(currPath, moduleName)} :
  \E modulePath \in {RealModulePath(s, currPath, moduleName, moduleID)} :
    IF moduleID = NoModuleID THEN Becomes(Throw(s))
    ELSE IF modulePath = Null THEN Becomes(Throw(s))
    ELSE IF UnderVendorPath(modulePath)
    THEN Becomes(Return(s, HostModule(modulePath)))
    ELSE LoadModule(s, modulePath)

\* requireModule(currPath, moduleName)
RequireModule(s, currPath, moduleName) ==
  \E moduleID \in {GetNormalizedModuleID(currPath, moduleName)} :
  \E modulePath \in {RealModulePath(s, currPath, moduleName, moduleID)} :
    IF moduleID = NoModuleID THEN Becomes(Throw(s))
    ELSE IF IsCore(moduleName) THEN Becomes(Return(s, HostModule(moduleName)))
    ELSE IF modulePath = Null THEN Becomes(Throw(s))
    ELSE IF UnderVendorPath(modulePath)
    THEN Becomes(Return(s, HostModule(modulePath)))
    ELSE LoadModule(s, modulePath)

(***************************************************************************)
(* _generateMock and requireMock.                                          *)
(***************************************************************************)
\* _generateMock lines 260-262, then the caller's code after the call:
\* requireMock stores the mock (lines 681 and 687), genMockFromModule
\* returns it.
GenerateMockReturn(s, modulePath, via, mpath) ==
  IF via = "requireMock"
  THEN Return([s EXCEPT !.mockRegistry =
                 Put(@, mpath, GenerateFromMetadata(modulePath, s.regId,
                                 s.mockMetaDataCache[modulePath]))],
              GenerateFromMetadata(modulePath, s.regId,
                                   s.mockMetaDataCache[modulePath]))
  ELSE Return(s, GenerateFromMetadata(modulePath, s.regId,
                                      s.mockMetaDataCache[modulePath]))

\* _generateMock lines 242-245: the registries in use are put aside (in the
\* frame) and fresh empty ones are installed.
IsolateRegistries(s, modulePath, via, mpath) ==
  [s EXCEPT
     !.stack = Append(@, GenFrame(modulePath, via, mpath, s.mockRegistry,
                                  s.moduleRegistry, s.regId, s.mutated)),
     !.mockRegistry = EmptyObject,
     !.moduleRegistry = EmptyObject,
     !.regId = s.nextReg,
     !.nextReg = @ + 1]

\* Variant: no sentinel is written before the real evaluation.
PutSentinelOmitted(s, modulePath) == s

\* _generateMock line 232: the sentinel that stops a circular automock.
PutSentinel(s, modulePath) ==
  [s EXCEPT !.mockMetaDataCache = Put(@, modulePath, SentinelMetadata)]

\* _generateMock(currPath, moduleName) up to the return of requireModule.
GenerateMock(s, currPath, moduleName, via, mpath) ==
  \E modulePath \in {ModuleNameToPath(currPath, moduleName)} :
    IF modulePath = Null THEN Becomes(Throw(s))
    ELSE IF ~Has(s.mockMetaDataCache, modulePath)
    THEN \E s1 \in {PutSentinel(s, modulePath)} :
         \E s2 \in {IsolateRegistries(s1, modulePath, via, mpath)} :
           RequireModule(s2, currPath, moduleName)
    ELSE Becomes(GenerateMockReturn(s, modulePath, via, mpath))

\* _generateMock lines 249-251: the registries put aside are in use again.
RestoreRegistries(s, frame) ==
  [s EXCEPT !.mockRegistry = frame.origMock,
            !.moduleRegistry = frame.origModule,
            !.regId = frame.origReg]

\* _generateMock after requireModule returned moduleExports (lines 249-262).
GenerateMockResume(s) ==
  \E f \in {Top(s)} :
  \E s1 \in {RestoreRegistries(Pop(s), f)} :
  \E mockMetadata \in {GetMetadata(s1, s.ret)} :
    IF mockMetadata = Null THEN Becomes(Throw(s1))
    ELSE \E s2 \in {[s1 EXCEPT !.mockMetaDataCache =
                       Put(@, f.path, mockMetadata)]} :
           Becomes(GenerateMockReturn(s2, f.path, f.via, f.mpath))

\* requireMock lines 635-666: the path of the manual mock (a JSMock resource
\* or the sibling __mocks__ file of the real module), Null when there is
\* none.
ManualMockPath(currPath, moduleName) ==
  Only({ IF manualMockResource # Null THEN manualMockResource
         ELSE Only({ IF modulePath = Null THEN Null
                     ELSE SiblingManualMock(modulePath) :
                       modulePath \in {ModuleNameToPath(currPath, moduleName)} }) :
           manualMockResource \in {GetResource("JSMock", moduleName)} })

\* Variant: the mock registry is consulted before the explicitly set mocks.
RequireMockRegistryFirst(s, currPath, moduleName) ==
  \E moduleID \in {GetNormalizedModuleID(currPath, moduleName)} :
  \E manualMock \in {ManualMockPath(currPath, moduleName)} :
  \E modulePath \in {IF manualMock # Null THEN manualMock
                     ELSE ModuleNameToPath(currPath, moduleName)} :
    IF moduleID = NoModuleID THEN Becomes(Throw(s))
    ELSE IF modulePath # Null /\ Has(s.mockRegistry, modulePath)
    THEN Becomes(Return(s, s.mockRegistry[modulePath]))
    ELSE IF Has(s.explicitlySetMocks, moduleID)
    THEN Becomes(Return(s, s.explicitlySetMocks[moduleID]))
    ELSE IF modulePath = Null THEN Becomes(Throw(s))
    ELSE IF manualMock # Null
    THEN Becomes(ExecModule(s, modulePath,
                            ManualExportsOf(modulePath, s.regId),
                            "requireMock"))
    ELSE GenerateMock(s, currPath, moduleName, "requireMock", modulePath)

\* requireMock(currPath, moduleName)
RequireMock(s, currPath, moduleName) ==
  \E moduleID \in {GetNormalizedModuleID(currPath, moduleName)} :
  \E manualMock \in {ManualMockPath(currPath, moduleName)} :
  \E modulePath \in {IF manualMock # Null THEN manualMock
                     ELSE ModuleNameToPath(currPath, moduleName)} :
    IF moduleID = NoModuleID THEN Becomes(Throw(s))
    ELSE IF Has(s.explicitlySetMocks, moduleID)
    THEN Becomes(Return(s, s.explicitlySetMocks[moduleID]))
    ELSE IF modulePath = Null THEN Becomes(Throw(s))
    ELSE IF Has(s.mockRegistry, modulePath)
    THEN Becomes(Return(s, s.mockRegistry[modulePath]))
    ELSE IF manualMock # Null
    THEN Becomes(ExecModule(s, modulePath,
                            ManualExportsOf(modulePath, s.regId),
                            "requireMock"))
    ELSE GenerateMock(s, currPath, moduleName, "requireMock", modulePath)

(***************************************************************************)
(* The mock policy.                                                        *)
(***************************************************************************)
Decision(threw, result, cache) ==
  [threw |-> threw, result |-> result, cache |-> cache]

\* Variant: the patterns are tried on the path as resolved only.
UnmockMatchesPathOnly(s, modulePath) ==
  \E i \in 1..Len(s.unmockListRegExps) :
    modulePath \in s.unmockListRegExps[i]

\* Some unmock pattern matches modulePath or its real path (lines 499-505).
UnmockMatches(s, modulePath) ==
  \E i \in 1..Len(s.unmockListRegExps) :
    \/ modulePath \in s.unmockListRegExps[i]
    \/ RealpathSync(modulePath) \in s.unmockListRegExps[i]

\* _shouldMock lines 463-506: the decision when auto-mock is on, no decision
\* is cached for the name and unmock patterns are configured.
ShouldMockByPatterns(s, currPath, moduleName) ==
  LET cache1 == Put(s.configShouldMockModuleNames, moduleName, TRUE)
  IN Only({ IF modulePath = Null
            THEN Decision(GetResource("JSMock", moduleName) = Null, TRUE, cache1)
            ELSE IF UnderVendorPath(modulePath)
            THEN Decision(FALSE, FALSE, cache1)
            ELSE IF UnmockMatches(s, modulePath)
            THEN Decision(FALSE, FALSE, Put(cache1, moduleName, FALSE))
            ELSE Decision(FALSE, TRUE, cache1) :
              modulePath \in {ModuleNameToPath(currPath, moduleName)} })

\* Variant: the built-in test comes before the explicit override.
ShouldMockCoreFirst(s, currPath, moduleName) ==
  LET cache == s.configShouldMockModuleNames
  IN Only({ IF moduleID = NoModuleID THEN Decision(TRUE, FALSE, cache)
            ELSE IF IsCore(moduleName) THEN Decision(FALSE, FALSE, cache)
            ELSE IF Has(s.explicitShouldMock, moduleID)
            THEN Decision(FALSE, s.explicitShouldMock[moduleID], cache)
            ELSE IF s.shouldAutoMock
            THEN IF Has(cache, moduleName)
                 THEN Decision(FALSE, cache[moduleName], cache)
                 ELSE IF Len(s.unmockListRegExps) > 0
                 THEN ShouldMockByPatterns(s, currPath, moduleName)
                 ELSE Decision(FALSE, TRUE, cache)
            ELSE Decision(FALSE, FALSE, cache) :
              moduleID \in {GetNormalizedModuleID(currPath, moduleName)} })

\* Variant: the decision cached for the name is not consulted when unmock
\* patterns are there to decide by the path.
ShouldMockByPathEachTime(s, currPath, moduleName) ==
  LET cache == s.configShouldMockModuleNames
  IN Only({ IF moduleID = NoModuleID THEN Decision(TRUE, FALSE, cache)
            ELSE IF Has(s.explicitShouldMock, moduleID)
            THEN Decision(FALSE, s.explicitShouldMock[moduleID], cache)
            ELSE IF IsCore(moduleName) THEN Decision(FALSE, FALSE, cache)
            ELSE IF s.shouldAutoMock
            THEN IF Len(s.unmockListRegExps) > 0
                 THEN ShouldMockByPatterns(s, currPath, moduleName)
                 ELSE IF Has(cache, moduleName)
                 THEN Decision(FALSE, cache[moduleName], cache)
                 ELSE Decision(FALSE, TRUE, cache)
            ELSE Decision(FALSE, FALSE, cache) :
              moduleID \in {GetNormalizedModuleID(currPath, moduleName)} })

\* _shouldMock(currPath, moduleName): whether it threw, what it returned and
\* this._configShouldMockModuleNames as it leaves it.
ShouldMock(s, currPath, moduleName) ==
  LET cache == s.configShouldMockModuleNames
  IN Only({ IF moduleID = NoModuleID THEN Decision(TRUE, FALSE, cache)
            ELSE IF Has(s.explicitShouldMock, moduleID)
            THEN Decision(FALSE, s.explicitShouldMock[moduleID], cache)
            ELSE IF IsCore(moduleName) THEN Decision(FALSE, FALSE, cache)
            ELSE IF s.shouldAutoMock
            THEN IF Has(cache, moduleName)
                 THEN Decision(FALSE, cache[moduleName], cache)
                 ELSE IF Len(s.unmockListRegExps) > 0
                 THEN ShouldMockByPatterns(s, currPath, moduleName)
                 ELSE Decision(FALSE, TRUE, cache)
            ELSE Decision(FALSE, FALSE, cache) :
              moduleID \in {GetNormalizedModuleID(currPath, moduleName)} })

\* requireModuleOrMock(currPath, moduleName)
RequireModuleOrMock(s, currPath, moduleName) ==
  \E d \in {ShouldMock(s, currPath, moduleName)} :
  \E s1 \in {[s EXCEPT !.configShouldMockModuleNames = d.cache]} :
    IF d.threw THEN Becomes(Throw(s1))
    ELSE IF d.result THEN RequireMock(s1, currPath, moduleName)
    ELSE RequireModule(s1, currPath, moduleName)

(***************************************************************************)
(* The runtime API of _createRuntimeFor(currPath) and resetModuleRegistry. *)
(***************************************************************************)
\* Variant: a new override also forgets the decisions cached per name.
SetExplicitShouldMockClearingCache(s, moduleID, value) ==
  [s EXCEPT !.explicitShouldMock = Put(@, moduleID, value),
            !.lastExplicit = Put(@, moduleID, value),
            !.configShouldMockModuleNames = EmptyObject]

\* this._explicitShouldMock[moduleID] = value (lines 820, 845, 862), with
\* the history of the calls.
SetExplicitShouldMock(s, moduleID, value) ==
  [s EXCEPT !.explicitShouldMock = Put(@, moduleID, value),
            !.lastExplicit = Put(@, moduleID, value)]

\* dontMock(moduleName)
DontMock(s, currPath, moduleName) ==
  \E moduleID \in {GetNormalizedModuleID(currPath, moduleName)} :
    IF moduleID = NoModuleID THEN Becomes(Throw(s))
    ELSE \E s1 \in {SetExplicitShouldMock(s, moduleID, FALSE)} :
           Becomes([s1 EXCEPT !.lastSetMock =
                      [k \in DOMAIN @ \ {moduleID} |-> @[k]]])

\* mock(moduleName)
Mock(s, currPath, moduleName) ==
  \E moduleID \in {GetNormalizedModuleID(currPath, moduleName)} :
    IF moduleID = NoModuleID THEN Becomes(Throw(s))
    ELSE Becomes(SetExplicitShouldMock(s, moduleID, TRUE))

\* this._explicitlySetMocks[moduleID] = moduleExports (line 863), with the
\* history of the calls.
SetExplicitMock(s, moduleID, moduleExports) ==
  [s EXCEPT !.explicitlySetMocks = Put(@, moduleID, moduleExports),
            !.lastSetMock = Put(@, moduleID, moduleExports)]

\* setMock(moduleName, moduleExports)
SetMock(s, currPath, moduleName, moduleExports) ==
  \E moduleID \in {GetNormalizedModuleID(currPath, moduleName)} :
    IF moduleID = NoModuleID THEN Becomes(Throw(s))
    ELSE \E s1 \in {SetExplicitShouldMock(s, moduleID, TRUE)} :
           Becomes(SetExplicitMock(s1, moduleID, moduleExports))

\* autoMockOff() and autoMockOn()
SetAutoMock(s, on) == Becomes([s EXCEPT !.shouldAutoMock = on])

\* Variant: only the mock registry is replaced.
FreshMockRegistryOnly(s) ==
  [s EXCEPT !.mockRegistry = EmptyObject,
            !.generation = @ + 1,
            !.resetInIsolation = Isolated(s.stack)]

\* Variant: the reset also forgets the explicit overrides and set mocks.
FreshRegistriesAndOverrides(s) ==
  [s EXCEPT !.mockRegistry = EmptyObject,
            !.moduleRegistry = EmptyObject,
            !.regId = s.nextReg,
            !.nextReg = @ + 1,
            !.generation = @ + 1,
            !.resetInIsolation = Isolated(s.stack),
            !.explicitShouldMock = EmptyObject,
            !.explicitlySetMocks = EmptyObject]

\* resetModuleRegistry() lines 874-875: both registries are new empty
\* objects.  (Clearing the mock functions of the global object does not
\* touch the loader.)
FreshRegistries(s) ==
  [s EXCEPT !.mockRegistry = EmptyObject,
            !.moduleRegistry = EmptyObject,
            !.regId = s.nextReg,
            !.nextReg = @ + 1,
            !.generation = @ + 1,
            !.resetInIsolation = Isolated(s.stack)]

\* resetModuleRegistry()
ResetModuleRegistry(s) == Becomes(FreshRegistries(s))

\* genMockFromModule(moduleName)
GenMockFromModule(s, moduleName) ==
  GenerateMock(s, s.currentlyExecutingModulePath, moduleName,
               "genMockFromModule", Null)

(***************************************************************************)
(* The dependency graph of the resource map.                               *)
(***************************************************************************)
\* _getRealPathFromNormalizedModuleID(moduleID): the text between the first
\* and the second delimiter of the ModuleID.
GetRealPathFromNormalizedModuleID(moduleID) ==
  Text(Split(moduleID, Delimiter)[2])

\* Variant: a required name that does not resolve ends the scan with the
\* resolver's exception, given as <<Thrown>>.
RECURSIVE DependencyPathsUncaught(_, _)
DependencyPathsUncaught(path, i) ==
  IF i > Len(RequiredModules(path)) THEN <<>>
  ELSE IF GetNormalizedModuleID(path, RequiredModules(path)[i]) = NoModuleID
  THEN <<Thrown>>
  ELSE IF DependencyPathsUncaught(path, i + 1) = <<Thrown>> THEN <<Thrown>>
  ELSE <<GetRealPathFromNormalizedModuleID(
           GetNormalizedModuleID(path, RequiredModules(path)[i]))>>
         \o DependencyPathsUncaught(path, i + 1)

\* _getDependencyPathsFromResource(resource), the loop from its i-th
\* required name on: a name whose ModuleID cannot be made is skipped (lines
\* 277-281), every other one contributes the real path of its ModuleID.
RECURSIVE DependencyPaths(_, _)
DependencyPaths(path, i) ==
  IF i > Len(RequiredModules(path)) THEN <<>>
  ELSE IF GetNormalizedModuleID(path, RequiredModules(path)[i]) = NoModuleID
  THEN DependencyPaths(path, i + 1)
  ELSE <<GetRealPathFromNormalizedModuleID(
           GetNormalizedModuleID(path, RequiredModules(path)[i]))>>
         \o DependencyPaths(path, i + 1)

GetDependencyPathsFromResource(path) == DependencyPaths(path, 1)

\* resource.type is one of the two kinds without dependency information.
NoDependencyInformation(path) ==
  ResourceByPath(path)[1] \in {"ProjectConfiguration", "Resource"}

\* resourceMap.getAllResources(), by path, in the order of the map's keys.
AllResources ==
  << "/p/A.js", "/p/B.js", "/p/M.js", "/p/N.js", "/p/E.js", "/p/R.js",
     "/p/L.js", "/p/Z.js", "/p/K.js", "/p/D.js", "/p/package.json",
     "/p/sub/package.json", "/q/p/package.json",
     "/p/__mocks__/G.js", "/p/__mocks__/U.js", "/p/__mocks__/P.js",
     "/p/__mocks__/Q.js" >>

\* getDependentsFromPath lines 609-616: the dependency paths of one
\* resource, from the i-th on, are entered in the reverse map.  An entry is
\* an object whose keys are the dependents, given as the sequence of its
\* keys.  An intermediate map is bound as the element of a set of one
\* element, so that it is computed once.
\* Variant: the entry of requiredModulePath is made anew for every
\* dependent.
SetDependentAnew(reverseDepMap, requiredModulePath, resourcePath) ==
  Put(reverseDepMap, requiredModulePath, <<resourcePath>>)

\* reverseDepMap[requiredModulePath][resourcePath] = true, after the entry
\* was made when there was none (lines 611-614).
SetDependent(reverseDepMap, requiredModulePath, resourcePath) ==
  IF ~Has(reverseDepMap, requiredModulePath)
  THEN Put(reverseDepMap, requiredModulePath, <<resourcePath>>)
  ELSE IF \E j \in 1..Len(reverseDepMap[requiredModulePath]) :
            reverseDepMap[requiredModulePath][j] = resourcePath
  THEN reverseDepMap
  ELSE Put(reverseDepMap, requiredModulePath,
           Append(reverseDepMap[requiredModulePath], resourcePath))

RECURSIVE AddDependent(_, _, _, _)
AddDependent(reverseDepMap, resourcePath, dependencyPaths, i) ==
  IF i > Len(dependencyPaths) THEN reverseDepMap
  ELSE Only({ AddDependent(m, resourcePath, dependencyPaths, i + 1) :
                m \in {SetDependent(reverseDepMap, dependencyPaths[i],
                                    resourcePath)} })

\* getDependentsFromPath lines 596-618: the reverse map made of the
\* resources from the k-th on.
RECURSIVE ScanResources(_, _)
ScanResources(reverseDepMap, k) ==
  IF k > Len(AllResources) THEN reverseDepMap
  ELSE IF NoDependencyInformation(AllResources[k])
  THEN ScanResources(reverseDepMap, k + 1)
  ELSE Only({ ScanResources(m, k + 1) :
                m \in {Only({ AddDependent(reverseDepMap, AllResources[k],
                                           dependencyPaths, 1) :
                               dependencyPaths \in
                                 {GetDependencyPathsFromResource(AllResources[k])} })} })

\* What a dependency query returns to the test.
PathsValue == Value("paths", Null, 0, Null)

\* getDependenciesFromPath(modulePath)
GetDependenciesFromPath(s, modulePath) ==
  IF ResourceByPath(modulePath)[1] = Null \/ NoDependencyInformation(modulePath)
  THEN /\ Becomes(Throw(s))
       /\ UNCHANGED <<reverseDependencyMap, paths>>
  ELSE /\ Becomes(Return(s, PathsValue))
       /\ paths' = GetDependencyPathsFromResource(modulePath)
       /\ UNCHANGED reverseDependencyMap

\* getDependentsFromPath lines 597-617: the reverse map the scan of all the
\* resources makes; it depends on the resource map only.
ScannedReverseDependencyMap == ScanResources(EmptyObject, 1)

\* getDependentsFromPath lines 596-618: the reverse map in use after the
\* null test, built now when there was none.
BuiltReverseDependencyMap(current) ==
  IF current = <<>> THEN <<ScannedReverseDependencyMap>> ELSE current

\* getDependentsFromPath(modulePath)
GetDependentsFromPath(s, modulePath) ==
  /\ Becomes(Return(s, PathsValue))
  /\ reverseDependencyMap' = BuiltReverseDependencyMap(reverseDependencyMap)
  /\ paths' = IF Has(reverseDependencyMap'[1], StringOf(modulePath))
              THEN reverseDependencyMap'[1][StringOf(modulePath)]
              ELSE <<>>

(***************************************************************************)
(* One statement of a module's top level.                                  *)
(***************************************************************************)
Statement(s, currPath, stmt) ==
  CASE stmt.op = "require" -> RequireModuleOrMock(s, currPath, stmt.name)
    [] stmt.op = "requireActual" -> RequireModule(s, currPath, stmt.name)
    [] stmt.op = "requireMock" -> RequireMock(s, currPath, stmt.name)
    [] stmt.op = "genMockFromModule" -> GenMockFromModule(s, stmt.name)
    [] stmt.op = "mock" -> Mock(s, currPath, stmt.name)
    [] stmt.op = "dontMock" -> DontMock(s, currPath, stmt.name)
    [] stmt.op = "resetModuleRegistry" -> ResetModuleRegistry(s)
    [] stmt.op = "mutate" -> Becomes([s EXCEPT !.mutated = @ \cup {s.ret}])
    [] stmt.op = "throw" -> Becomes(Throw(s))

\* The frame on top moves to its next statement.
Advance(s) == [s EXCEPT !.stack[Len(s.stack)].pc = @ + 1]

(***************************************************************************)
(* Initial state: the state the constructor leaves (lines 83-131).         *)
(***************************************************************************)
InitWith(profiles) ==
  /\ moduleRegistry = EmptyObject
  /\ mockRegistry = EmptyObject
  /\ regId = 1
  /\ nextReg = 2
  /\ explicitShouldMock = EmptyObject
  /\ explicitlySetMocks = EmptyObject
  /\ shouldAutoMock = TRUE
  /\ configShouldMockModuleNames = EmptyObject
  /\ mockMetaDataCache = EmptyObject
  /\ currentlyExecutingModulePath = ""
  /\ isCurrentlyExecutingManualMock = Null
  /\ envGlobal = TRUE
  /\ unmockListRegExps \in {<<>>, <<UnmockPattern>>}
  /\ stack = <<>>
  /\ ret = Undefined
  /\ populated = {}
  /\ mutated = {}
  /\ generation = 0
  /\ execLog = EmptyObject
  /\ lastExplicit = EmptyObject
  /\ lastSetMock = EmptyObject
  /\ resetInIsolation = FALSE
  /\ lastCall = Stmt("none", Null)
  /\ calls = 0
  /\ profile \in profiles
  /\ reverseDependencyMap = <<>>
  /\ paths = <<>>

Init == InitWith(Profiles)

(***************************************************************************)
(* The calls of the test file, made while no module is being evaluated.    *)
(***************************************************************************)
TestCalls(stmt) ==
  /\ stack = <<>>
  /\ calls < MaxCalls
  /\ calls' = calls + 1
  /\ lastCall' = stmt
  /\ profile' = profile
  /\ UNCHANGED <<reverseDependencyMap, paths>>

TestRequireModuleOrMock ==
  /\ stack = <<>> /\ calls < MaxCalls
  /\ \E n \in profile, s \in {St} :
       TestCalls(Stmt("require", n)) /\ RequireModuleOrMock(s, TestPath, n)

TestRequireModule ==
  /\ stack = <<>> /\ calls < MaxCalls
  /\ \E n \in profile, s \in {St} :
       TestCalls(Stmt("requireActual", n)) /\ RequireModule(s, TestPath, n)

TestRequireMock ==
  /\ stack = <<>> /\ calls < MaxCalls
  /\ \E n \in profile, s \in {St} :
       TestCalls(Stmt("requireMock", n)) /\ RequireMock(s, TestPath, n)

TestGenMockFromModule ==
  /\ stack = <<>> /\ calls < MaxCalls
  /\ \E n \in profile, s \in {St} :
       TestCalls(Stmt("genMockFromModule", n)) /\ GenMockFromModule(s, n)

TestMock ==
  /\ stack = <<>> /\ calls < MaxCalls
  /\ \E n \in profile, s \in {St} :
       TestCalls(Stmt("mock", n)) /\ Mock(s, TestPath, n)

TestDontMock ==
  /\ stack = <<>> /\ calls < MaxCalls
  /\ \E n \in profile, s \in {St} :
       TestCalls(Stmt("dontMock", n)) /\ DontMock(s, TestPath, n)

TestSetMock ==
  /\ stack = <<>> /\ calls < MaxCalls
  /\ \E n \in profile, e \in SlotValues, s \in {St} :
       TestCalls(Stmt("setMock", n)) /\ SetMock(s, TestPath, n, SlotValue(e))

TestAutoMockOff ==
  /\ stack = <<>> /\ calls < MaxCalls
  /\ \E s \in {St} : TestCalls(Stmt("autoMockOff", Null)) /\ SetAutoMock(s, FALSE)

TestAutoMockOn ==
  /\ stack = <<>> /\ calls < MaxCalls
  /\ \E s \in {St} : TestCalls(Stmt("autoMockOn", Null)) /\ SetAutoMock(s, TRUE)

TestResetModuleRegistry ==
  /\ stack = <<>> /\ calls < MaxCalls
  /\ \E s \in {St} :
       TestCalls(Stmt("resetModuleRegistry", Null)) /\ ResetModuleRegistry(s)

\* The environment is torn down: its global is gone.
DisposeEnvironment ==
  /\ stack = <<>> /\ calls < MaxCalls
  /\ \E s \in {St} :
       TestCalls(Stmt("dispose", Null)) /\ Becomes([s EXCEPT !.envGlobal = FALSE])

(***************************************************************************)
(* The steps of the calls in progress.                                     *)
(***************************************************************************)
\* The module on top of the stack runs its next statement.
ModuleStatement ==
  /\ stack # <<>>
  /\ UNCHANGED <<lastCall, calls, profile, reverseDependencyMap, paths>>
  /\ \E s \in {St} : \E f \in {Top(s)} :
       /\ f.t = "exec"
       /\ f.pc <= Len(Body(f.path))
       /\ \E s1 \in {Advance(s)} : Statement(s1, f.path, Body(f.path)[f.pc])

\* The top level of the module on top of the stack is finished.
ModuleEnd ==
  /\ stack # <<>>
  /\ UNCHANGED <<lastCall, calls, profile, reverseDependencyMap, paths>>
  /\ \E s \in {St} : \E f \in {Top(s)} :
       /\ f.t = "exec"
       /\ f.pc > Len(Body(f.path))
       /\ ExecModuleReturn(s)

\* requireModule returned to the _generateMock on top of the stack.
GenerateMockEnd ==
  /\ stack # <<>>
  /\ UNCHANGED <<lastCall, calls, profile, reverseDependencyMap, paths>>
  /\ \E s \in {St} :
       /\ Top(s).t = "gen"
       /\ GenerateMockResume(s)

Next ==
  \/ TestRequireModuleOrMock
  \/ TestRequireModule
  \/ TestRequireMock
  \/ TestGenMockFromModule
  \/ TestMock
  \/ TestDontMock
  \/ TestSetMock
  \/ TestAutoMockOff
  \/ TestAutoMockOn
  \/ TestResetModuleRegistry
  \/ DisposeEnvironment
  \/ ModuleStatement
  \/ ModuleEnd
  \/ GenerateMockEnd

Spec == Init /\ [][Next]_vars

(***************************************************************************)
(* A tool that also asks the loader for the dependency graph.              *)
(***************************************************************************)
\* The paths such a tool asks about: the files of the resource map, a path
\* the map does not know, a core name and the "null" a ModuleID without real
\* file gives.
QueryPaths ==
  {AllResources[k] : k \in 1..Len(AllResources)}
    \cup {"/p/unknown.js", "path", Null}

QueryCalls(stmt) ==
  /\ stack = <<>>
  /\ calls < MaxCalls
  /\ calls' = calls + 1
  /\ lastCall' = stmt
  /\ profile' = profile

TestGetDependenciesFromPath ==
  /\ stack = <<>> /\ calls < MaxCalls
  /\ \E modulePath \in QueryPaths, s \in {St} :
       /\ QueryCalls(Stmt("getDependenciesFromPath", modulePath))
       /\ GetDependenciesFromPath(s, modulePath)

TestGetDependentsFromPath ==
  /\ stack = <<>> /\ calls < MaxCalls
  /\ \E modulePath \in QueryPaths, s \in {St} :
       /\ QueryCalls(Stmt("getDependentsFromPath", modulePath))
       /\ GetDependentsFromPath(s, modulePath)

DepInit == InitWith(DepProfiles)

DepNext ==
  \/ Next
  \/ TestGetDependenciesFromPath
  \/ TestGetDependentsFromPath

DepSpec == DepInit /\ [][DepNext]_vars

\* A call in progress goes on: the interpreter runs the statement, the
\* return or the resumption that is due.
FairSpec ==
  Spec /\ WF_vars(ModuleStatement \/ ModuleEnd \/ GenerateMockEnd)

(***************************************************************************)
(* Properties.                                                             *)
(***************************************************************************)
\* The files of the world, the files that make requests in the test at hand,
\* and the files a file's top level asks for.
Files == {ResourceJS(n) : n \in Names} \ {Null}
Importers == {TestPath} \cup ({ResourceJS(n) : n \in profile} \ {Null})
RequireOps == {"require", "requireActual"}
Requires(path) ==
  {ModuleNameToPath(path, Body(path)[i].name) :
     i \in {j \in 1..Len(Body(path)) : Body(path)[j].op \in RequireOps}}
InCycle(path) == \E q \in Requires(path) : q # Null /\ path \in Requires(q)

\* The statement the frame f has just finished, when it has finished one.
Finished(f) == Body(f.path)[f.pc - 1]
RealFrame(f) == f.t = "exec" /\ f.via = "requireModule"

\* C1 (as stated): within one registry generation the top level of the real
\* module at a path is invoked at most once, requests made during an automock
\* synthesis included.
C1_OncePerGeneration ==
  \A k1, k2 \in DOMAIN execLog :
    /\ execLog[k1] <= 1
    /\ (k1[1] = k2[1] /\ k1[3] = k2[3]) => k1 = k2

\* C1 (amended): for each pair of registries (the pair in use after the
\* constructor or a reset, or the fresh pair of one isolated automock
\* evaluation) the top level of the real module at a path is invoked at most
\* once while that pair is in use.
C1_OncePerRegistry ==
  \A k1, k2 \in DOMAIN execLog :
    /\ execLog[k1] <= 1
    /\ (k1[2] = k2[2] /\ k1[3] = k2[3]) => k1 = k2

\* A path was evaluated for the registries of the generation and once more,
\* in the same generation, for an automock's isolated registries.
C1_Witness ==
  \E k1, k2 \in DOMAIN execLog :
    /\ k1 # k2 /\ k1[1] = k2[1] /\ k1[3] = k2[3]
    /\ stack = <<>> /\ envGlobal /\ ret.k = "exports" /\ ret \in populated

\* C2: A and B require each other and both are delivered real.  The request
\* for A made by B's top level returns A's pre-allocated, not yet complete
\* exports and A is not evaluated a second time; once both top levels have
\* finished a request for A or B returns the complete exports.
C2_CycleInProgress ==
  \A i \in 1..Len(stack) :
    LET top == stack[Len(stack)]
        a == stack[i]
    IN (/\ i < Len(stack)
        /\ RealFrame(a) /\ RealFrame(top) /\ top.pc > 1
        /\ Finished(top).op \in RequireOps
        /\ ModuleNameToPath(top.path, Finished(top).name) = a.path
        /\ a.obj.r = regId
        /\ \/ Finished(top).op = "requireActual"
           \/ ~ShouldMock(St, top.path, Finished(top).name).result)
       => /\ ret = a.obj
          /\ ret \notin populated
          /\ \A k \in DOMAIN execLog :
               (k[2] = regId /\ k[3] = a.path) => execLog[k] = 1

C2_NotEvaluatedTwice ==
  \A i, j \in 1..Len(stack) :
    (i < j /\ RealFrame(stack[i]) /\ RealFrame(stack[j])
       /\ stack[i].path = stack[j].path)
    => stack[i].obj.r # stack[j].obj.r

C2_CycleFinished ==
  (/\ stack = <<>> /\ envGlobal
   /\ lastCall.op \in RequireOps
   /\ ret.k = "exports" /\ InCycle(ret.p))
  => ret \in populated

C2_RealCycle ==
  C2_CycleInProgress /\ C2_NotEvaluatedTwice /\ C2_CycleFinished

\* Both modules of a cycle were evaluated for the registries in use, and the
\* request that started it has returned complete exports.
C2_Witness ==
  /\ stack = <<>> /\ envGlobal /\ lastCall.op \in RequireOps
  /\ ret.k = "exports" /\ InCycle(ret.p) /\ ret \in populated
  /\ \A p \in Files :
       InCycle(p) => /\ Has(execLog, <<generation, regId, p>>)
                     /\ Has(moduleRegistry, p)
                     /\ moduleRegistry[p] \in populated

\* C3 (as stated): after a resetModuleRegistry call nothing cached before
\* the reset is returned: every module the real registry holds was evaluated
\* in the current generation.
C3_ResetReevaluates ==
  \A p \in DOMAIN moduleRegistry :
    \E k \in DOMAIN execLog : k[1] = generation /\ k[3] = p

\* C3 (amended): the same, for a resetModuleRegistry call made while no
\* automock's isolated evaluation is in progress; a reset made during an
\* isolated evaluation replaces the isolated registries only.
C3_ResetOutsideIsolation ==
  ~resetInIsolation => C3_ResetReevaluates

\* A module evaluated before a reset was evaluated again after it.
C3_Witness ==
  /\ generation >= 1 /\ ~resetInIsolation /\ stack = <<>>
  /\ \E p \in DOMAIN moduleRegistry :
       /\ Has(execLog, <<generation, regId, p>>)
       /\ \E k \in DOMAIN execLog : k[1] < generation /\ k[3] = p

\* C4: for a ModuleID with an explicit override the policy's decision is the
\* value of the most recent mock (TRUE) or dontMock (FALSE) call, whatever
\* the auto-mock setting, the unmock list, the cached decision, or whether
\* the name is a built-in, and whichever file makes the request.
C4_ExplicitOverrideDominates ==
  \/ DOMAIN lastExplicit = {}
  \/ \A n \in profile, c \in Importers :
       \A id \in {GetNormalizedModuleID(c, n)} :
         (id # NoModuleID /\ Has(lastExplicit, id))
           => ShouldMock(St, c, n) =
                Decision(FALSE, lastExplicit[id], configShouldMockModuleNames)

\* dontMock was called last for a name whose cached decision says "mock"
\* while auto-mock is on.
C4_Witness ==
  /\ lastCall.op = "dontMock" /\ shouldAutoMock
  /\ Has(configShouldMockModuleNames, lastCall.name)
  /\ configShouldMockModuleNames[lastCall.name]
  /\ Has(lastExplicit, GetNormalizedModuleID(TestPath, lastCall.name))
  /\ ~lastExplicit[GetNormalizedModuleID(TestPath, lastCall.name)]

\* C5: a resetModuleRegistry call leaves the explicit-override map and the
\* explicit mock slots exactly as they were.
C5_ResetKeepsOverrides ==
  [][generation' # generation =>
       /\ explicitShouldMock' = explicitShouldMock
       /\ explicitlySetMocks' = explicitlySetMocks]_vars

\* A reset was the last call, made with an override and a set mock in place.
C5_Witness ==
  /\ lastCall.op = "resetModuleRegistry" /\ generation >= 1
  /\ explicitlySetMocks # EmptyObject
  /\ \E id \in DOMAIN explicitShouldMock : ~explicitShouldMock[id]

\* C6: after setMock(name, e) every requireModuleOrMock for the same
\* ModuleID returns exactly e until a dontMock for that ModuleID, whether or
\* not the mock registry held an entry and whether or not the registries
\* were reset in between.
C6_SetMockReturned ==
  /\ LET id == GetNormalizedModuleID(TestPath, lastCall.name)
     IN (stack = <<>> /\ lastCall.op = "require" /\ Has(lastSetMock, id))
        => ret = lastSetMock[id]
  /\ \A i \in 1..Len(stack) :
       LET top == stack[i]
           id == GetNormalizedModuleID(top.path, Finished(top).name)
       IN (/\ i = Len(stack) /\ top.t = "exec" /\ top.pc > 1
           /\ Finished(top).op = "require" /\ Has(lastSetMock, id))
          => ret = lastSetMock[id]

\* requireModuleOrMock returned the set mock after a reset.
C6_Witness ==
  /\ stack = <<>> /\ lastCall.op = "require" /\ generation >= 1
  /\ Has(lastSetMock, GetNormalizedModuleID(TestPath, lastCall.name))
  /\ ret = lastSetMock[GetNormalizedModuleID(TestPath, lastCall.name)]

\* C7: a requireModuleOrMock request whose resolved path lies under the
\* framework's vendor directory is delivered real when no explicit override
\* is set for it: on the first and on every later request, with auto-mock on
\* or off, with an empty or a non-empty unmock list.
C7_VendorAlwaysReal ==
  LET modulePath == ModuleNameToPath(TestPath, lastCall.name)
      id == GetNormalizedModuleID(TestPath, lastCall.name)
  IN (/\ stack = <<>> /\ lastCall.op = "require"
      /\ modulePath # Null /\ UnderVendorPath(modulePath)
      /\ ~Has(explicitShouldMock, id))
     => ret = HostModule(modulePath)

\* The values a registry holds.
Range(obj) == {obj[key] : key \in DOMAIN obj}

\* C8: when the isolated evaluation of an automock synthesis is over, the
\* real and the mock registry of the caller hold the keys and the values
\* they held before the call (the mock registry may have gained the new
\* automock), and none of those values was written to.
C8_IsolationRestores ==
  [][\A i \in 1..Len(stack) :
       (stack[i].t = "gen" /\ Len(stack') < i) =>
         /\ moduleRegistry' = stack[i].origModule
         /\ regId' = stack[i].origReg
         /\ DOMAIN mockRegistry' \subseteq
              DOMAIN stack[i].origMock \cup {stack[i].mpath}
         /\ \A p \in DOMAIN stack[i].origMock :
              Has(mockRegistry', p) /\ mockRegistry'[p] = stack[i].origMock[p]
         /\ \A v \in Range(stack[i].origModule) \cup Range(stack[i].origMock) :
              (v \in mutated') <=> (v \in stack[i].origMutated)]_vars

\* C9: requireModule(x) returns the real exports of x, never a manual mock
\* or an automock, whatever the policy decision, the explicit slot or the
\* override for x.
C9_RequireActualIsReal ==
  LET modulePath == ModuleNameToPath(TestPath, lastCall.name)
  IN (/\ stack = <<>> /\ lastCall.op = "requireActual"
      /\ modulePath # Null /\ ret # ThrownValue)
     => \/ ret = HostModule(lastCall.name)
        \/ ret = HostModule(modulePath)
        \/ ret.k \in {"exports", "json"} /\ ret.p = modulePath

\* The real registries: the one in use and those put aside.
RealRegistries ==
  {moduleRegistry} \cup
  {stack[i].origModule : i \in {j \in 1..Len(stack) : stack[j].t = "gen"}}
MockRegistries ==
  {mockRegistry} \cup
  {stack[i].origMock : i \in {j \in 1..Len(stack) : stack[j].t = "gen"}}
CoreNames == {n \in Names : IsCore(n)}

\* C10 (as stated): neither registry ever holds a key for a built-in module.
C10_NoBuiltinKey ==
  \A n \in CoreNames :
    /\ \A reg \in RealRegistries : ~Has(reg, n)
    /\ \A reg \in MockRegistries : ~Has(reg, n)

\* A built-in is delivered real by requireModule, and by requireModuleOrMock
\* unless an explicit override says "mock".
DeliveredRealCore(call, overrides) ==
  /\ call.op \in RequireOps
  /\ IsCore(call.name)
  /\ \/ call.op = "requireActual"
     \/ ~Has(overrides, GetNormalizedModuleID(TestPath, call.name))
     \/ ~overrides[GetNormalizedModuleID(TestPath, call.name)]

\* C10 (amended): the real registry never holds a key for a built-in, and a
\* request for a built-in that is delivered real (requireModule, or
\* requireModuleOrMock without an explicit "mock" override) returns the host
\* module and leaves both registries as they were.  The mock registry does
\* hold a built-in's name once requireMock (called directly or because of an
\* explicit override) has generated its automock, and then it holds that
\* automock.
C10_BuiltinPassThrough ==
  /\ [](\A n \in CoreNames :
          /\ \A reg \in RealRegistries : ~Has(reg, n)
          /\ \A reg \in MockRegistries :
               Has(reg, n) => reg[n].k = "auto" /\ reg[n].p = n)
  /\ [][(calls' # calls /\ DeliveredRealCore(lastCall', explicitShouldMock))
        => /\ stack' = <<>>
           /\ ret' = HostModule(lastCall'.name)
           /\ moduleRegistry' = moduleRegistry
           /\ mockRegistry' = mockRegistry]_vars

\* The mock registry holds the automock of a built-in under its name.
C10_Witness ==
  /\ stack = <<>>
  /\ \E n \in CoreNames : Has(mockRegistry, n) /\ ret = mockRegistry[n]

\* The decision the ordered rules give for a request of name n made by the
\* file c: TRUE for "mock", FALSE for "real".
FirstApplicableRule(c, n) ==
  LET id == GetNormalizedModuleID(c, n)
      modulePath == ModuleNameToPath(c, n)
  IN IF Has(explicitShouldMock, id) THEN explicitShouldMock[id]
     ELSE IF IsCore(n) THEN FALSE
     ELSE IF ~shouldAutoMock THEN FALSE
     ELSE IF Has(configShouldMockModuleNames, n)
     THEN configShouldMockModuleNames[n]
     ELSE IF Len(unmockListRegExps) = 0 THEN TRUE
     ELSE IF modulePath = Null /\ GetResource("JSMock", n) # Null THEN TRUE
     ELSE IF UnderVendorPath(modulePath) THEN FALSE
     ELSE ~(\E i \in 1..Len(unmockListRegExps) :
              \/ modulePath \in unmockListRegExps[i]
              \/ RealpathSync(modulePath) \in unmockListRegExps[i])

\* The files whose code can make a request in this state: the test file and
\* the modules whose top level is being evaluated.
Asking ==
  {TestPath} \cup
    {stack[i].path : i \in {j \in 1..Len(stack) : stack[j].t = "exec"}}

\* C11: whenever the policy gives a decision for a request, it is the one of
\* the first applicable rule in the order: explicit override, built-in,
\* auto-mock off, cached decision for the name, no unmock patterns, real
\* module unresolvable but manual mock present, vendor path, unmock patterns
\* tried on the resolved path and on its symlink-resolved real path.
C11_DecisionOrder ==
  [](\A s \in {St} : \A n \in profile, c \in Asking :
      \A d \in {ShouldMock(s, c, n)} :
        ~d.threw => d.result = FirstApplicableRule(c, n))

\* The last rule decided "real" for a symbolic link whose real path alone
\* matches an unmock pattern, and the request returned the real module.
C11_Witness ==
  /\ stack = <<>> /\ lastCall.op = "require" /\ shouldAutoMock
  /\ explicitShouldMock = EmptyObject
  /\ LET modulePath == ModuleNameToPath(TestPath, lastCall.name)
     IN /\ modulePath # Null
        /\ RealpathSync(modulePath) # modulePath
        /\ Has(configShouldMockModuleNames, lastCall.name)
        /\ ~configShouldMockModuleNames[lastCall.name]
        /\ ret = ExportsOf(modulePath, regId)

\* The frames of module evaluations that are on the stack stk and no longer
\* on the stack after the step.
Returned(stk, after) ==
  {i \in 1..Len(stk) : i > Len(after) /\ stk[i].t = "exec"}

\* C12: whenever _execModule returns for a module, by normal completion or
\* by an exception, the currently executing module path and the manual-mock
\* flag hold the values they had before that call; when several nested
\* evaluations end at once, the values before the outermost of them.
C12_ExecRestores ==
  [][Returned(stack, stack') # {} =>
       LET first == CHOOSE i \in Returned(stack, stack') :
                      \A j \in Returned(stack, stack') : i <= j
       IN /\ currentlyExecutingModulePath' = stack[first].lastPath
          /\ isCurrentlyExecutingManualMock' = stack[first].lastManual]_vars

OverrideOps == {"mock", "dontMock", "setMock"}

\* C13: a mock, dontMock or setMock call leaves the real registry, the mock
\* registry, the mock-shape cache, the per-name decision cache and the
\* auto-mock flag unchanged: an entry already cached is never replaced.
C13_OverridesFrame ==
  [][(calls' # calls /\ lastCall'.op \in OverrideOps) =>
       /\ moduleRegistry' = moduleRegistry
       /\ mockRegistry' = mockRegistry
       /\ mockMetaDataCache' = mockMetaDataCache
       /\ configShouldMockModuleNames' = configShouldMockModuleNames
       /\ shouldAutoMock' = shouldAutoMock]_vars

\* setMock was called for a module whose automock the mock registry holds
\* and for whose name a decision is cached; both are still there.
C13_Witness ==
  /\ stack = <<>> /\ lastCall.op = "setMock"
  /\ Has(explicitlySetMocks, GetNormalizedModuleID(TestPath, lastCall.name))
  /\ ModuleNameToPath(TestPath, lastCall.name) # Null
  /\ Has(mockRegistry, ModuleNameToPath(TestPath, lastCall.name))
  /\ Has(configShouldMockModuleNames, lastCall.name)

\* The last call of the test asked _generateMock for the automock of a
\* module whose exports the mocker cannot describe, in a live environment.
AsksAutomockWithoutShape ==
  /\ stack = <<>> /\ envGlobal
  /\ ModuleNameToPath(TestPath, lastCall.name) \in NoMetadataFiles
  /\ \/ lastCall.op = "genMockFromModule"
     \/ /\ lastCall.op = "requireMock"
        /\ ~Has(explicitlySetMocks,
                GetNormalizedModuleID(TestPath, lastCall.name))
        /\ ManualMockPath(TestPath, lastCall.name) = Null
        /\ ~Has(mockRegistry, ModuleNameToPath(TestPath, lastCall.name))

\* C14: every request for the automock of a module for whose exports the
\* mocker returns no shape fails, the first one and every later one.
C14_NoShapeAlwaysFails ==
  AsksAutomockWithoutShape => ret = ThrownValue

\* The names some configured mapping matches, and for such a name the
\* canonical name of the first mapping, in declared order, that matches it.
MappedNames ==
  {n \in Names : \E i \in 1..Len(ModuleNameMapper) : n \in ModuleNameMapper[i][1]}
FirstMapping(n) ==
  ModuleNameMapper[CHOOSE i \in 1..Len(ModuleNameMapper) :
    /\ n \in ModuleNameMapper[i][1]
    /\ \A j \in 1..(i - 1) : n \notin ModuleNameMapper[j][1]][2]

\* C16: a request for a name a mapping matches is served as the request
\* for the canonical name of the first matching mapping, by the real lookup
\* and by the mock lookup: it resolves, and what it delivers comes from the
\* canonical module's file.
C16_MappingAppliedFirst ==
  (/\ stack = <<>>
   /\ lastCall.op \in {"require", "requireActual", "requireMock"}
   /\ lastCall.name \in MappedNames
   /\ ~Has(explicitlySetMocks, GetNormalizedModuleID(TestPath, lastCall.name)))
    => /\ ret # ThrownValue
       /\ ret.p = ResourceJS(FirstMapping(lastCall.name))

\* _generateMock is waiting, somewhere on the stack, for the real
\* evaluation of modulePath.
Synthesizing(stk, modulePath) ==
  \E i \in 1..Len(stk) : stk[i].t = "gen" /\ stk[i].path = modulePath

\* The module on top of the stack is about to ask for the automock of
\* modulePath: its next statement is a require the policy answers with
\* "mock", or a requireMock, of a name without manual mock and without mock
\* set by the test, that resolves to modulePath.
AsksAutomock(modulePath) ==
  /\ stack # <<>>
  /\ Top(St).t = "exec"
  /\ Top(St).pc <= Len(Body(Top(St).path))
  /\ LET f == Top(St)
         stmt == Body(f.path)[f.pc]
     IN /\ stmt.op \in {"require", "requireMock"}
        /\ ModuleNameToPath(f.path, stmt.name) = modulePath
        /\ ManualMockPath(f.path, stmt.name) = Null
        /\ ~Has(explicitlySetMocks, GetNormalizedModuleID(f.path, stmt.name))
        /\ stmt.op = "require" =>
             /\ ~ShouldMock(St, f.path, stmt.name).threw
             /\ ShouldMock(St, f.path, stmt.name).result

\* No module's automock is being synthesized twice at a time.
C18_NoNestedSynthesis ==
  \A i, j \in 1..Len(stack) :
    (i < j /\ stack[i].t = "gen" /\ stack[j].t = "gen")
      => stack[i].path # stack[j].path

\* A request for the automock of a module whose synthesis is in progress
\* returns at once a stub generated from the sentinel shape: no frame is
\* pushed and no module is evaluated.
C18_InnerRequestGetsStub ==
  \A modulePath \in Files :
    (Synthesizing(stack, modulePath) /\ AsksAutomock(modulePath))
      => /\ Len(stack') = Len(stack)
         /\ execLog' = execLog
         /\ mockMetaDataCache' = mockMetaDataCache
         /\ ret'.k = "auto" /\ ret'.p = modulePath
         /\ ret'.s = SentinelMetadata

\* When the real evaluation of the module has returned, the synthesis
\* caches the shape of the exports it returned in place of the sentinel and
\* delivers an automock of that shape.
C18_OuterCachesRealShape ==
  (stack # <<>> /\ Top(St).t = "gen" /\ ret' # ThrownValue)
    => /\ mockMetaDataCache'[Top(St).path] = GetMetadata(St, ret)
       /\ ret'.k = "auto" /\ ret'.p = Top(St).path
       /\ ret'.s = GetMetadata(St, ret)

\* C18: automock synthesis terminates on cyclic module graphs.  While the
\* automock of a module is being synthesized, a further request for it finds
\* the sentinel shape cached under the module's path, evaluates nothing and
\* returns a stub; the module is never synthesized twice at a time; the outer
\* synthesis caches the module's real shape when its evaluation returns; and
\* every call in progress, a synthesis included, comes to an end, a synthesis
\* without ever filling the host's call stack.
C18_SentinelStopsCycle ==
  /\ []C18_NoNestedSynthesis
  /\ [][C18_InnerRequestGetsStub]_vars
  /\ [][C18_OuterCachesRealShape]_vars
  /\ [](Isolated(stack) => Len(stack) < MaxDepth)
  /\ []<>(stack = <<>>)

\* The automock of A was asked for while it was being synthesized (A
\* requires B, B requires A), the inner request got a stub of the sentinel
\* shape, and the synthesis of A has ended with A's real shape cached.
C18_Witness ==
  /\ stack = <<>> /\ ret # ThrownValue
  /\ \E modulePath \in Files :
       /\ InCycle(modulePath)
       /\ Has(mockMetaDataCache, modulePath)
       /\ mockMetaDataCache[modulePath] = "full"
       /\ ret = GenerateFromMetadata(modulePath, regId, "full")
       /\ \A q \in Requires(modulePath) :
            Has(mockMetaDataCache, q) /\ mockMetaDataCache[q] = "full"

\* C19: with the environment torn down a request is a silent no-op
\* whatever kind of file it resolves to: no module is being evaluated, and a
\* request the test made for a module that resolves has raised no exception.
C19_DisposedIsSilent ==
  ~envGlobal =>
    /\ \A i \in 1..Len(stack) : stack[i].t # "exec"
    /\ (/\ stack = <<>>
        /\ lastCall.op \in {"require", "requireActual", "requireMock"}
        /\ ModuleNameToPath(TestPath, lastCall.name) # Null)
         => ret # ThrownValue

\* C20 as stated: no absolute path is a key of the real registry and of the
\* mock registry at once.
C20_DisjointKeys ==
  DOMAIN moduleRegistry \cap DOMAIN mockRegistry = {}

\* C20 amended: the two registries may hold the same path, but never the
\* same object under it.  What the real registry holds under a path is what
\* requireModule made of the file at that path; what the mock registry
\* holds under a path is the automock generated for the module at that path
\* or the exports of the manual mock at that path as requireMock evaluated
\* it.
C20_SharedKeysDistinctObjects ==
  /\ \A real \in RealRegistries : \A path \in DOMAIN real :
       real[path].k \in {"exports", "json", "host"} /\ real[path].p = path
  /\ \A mock \in MockRegistries : \A path \in DOMAIN mock :
       mock[path].k \in {"auto", "manual"} /\ mock[path].p = path
  /\ \A path \in DOMAIN moduleRegistry \cap DOMAIN mockRegistry :
       moduleRegistry[path] # mockRegistry[path]

\* The path of a manual mock that stood in for a missing real module is a
\* key of both registries, and so is, in another run, the path of a real
\* module whose automock was made.
C20_Witness ==
  /\ stack = <<>>
  /\ \E path \in DOMAIN moduleRegistry \cap DOMAIN mockRegistry :
       /\ moduleRegistry[path] \in populated
       /\ \/ mockRegistry[path].k = "manual"
          \/ mockRegistry[path].k = "auto" /\ mockRegistry[path].s = "full"

\* The resources getDependenciesFromPath answers for, and the elements of a
\* sequence of paths.
ResourcesWithDependencies ==
  {AllResources[k] : k \in {j \in 1..Len(AllResources) :
                              ~NoDependencyInformation(AllResources[j])}}
PathsIn(seq) == {seq[i] : i \in 1..Len(seq)}

\* What getDependenciesFromPath returns for each of these resources.
DependenciesOf ==
  [p \in ResourcesWithDependencies |-> GetDependencyPathsFromResource(p)]

\* getDependentsFromPath has just answered for the path it was asked about:
\* a resource is among the paths returned exactly when the path asked about
\* is among the paths getDependenciesFromPath returns for that resource.
C17_DependentsInvertDependencies ==
  (stack = <<>> /\ lastCall.op = "getDependentsFromPath")
    => /\ ret = PathsValue
       /\ \A p \in ResourcesWithDependencies :
            p \in PathsIn(paths)
              <=> StringOf(lastCall.name) \in PathsIn(DependenciesOf[p])
       /\ PathsIn(paths) \subseteq ResourcesWithDependencies

\* The reverse map is made by the first getDependentsFromPath call and by
\* nothing else, it is never made again, and a call that finds it made
\* answers from it.
C17_BuiltOnce ==
  /\ reverseDependencyMap' # reverseDependencyMap
       => /\ reverseDependencyMap = <<>>
          /\ lastCall'.op = "getDependentsFromPath" /\ calls' # calls
  /\ (calls' # calls /\ lastCall'.op = "getDependentsFromPath"
        /\ reverseDependencyMap # <<>>)
       => paths' = IF Has(reverseDependencyMap[1], StringOf(lastCall'.name))
                   THEN reverseDependencyMap[1][StringOf(lastCall'.name)]
                   ELSE <<>>

\* C17: getDependentsFromPath is the inverse of getDependenciesFromPath over
\* the resources that have dependency information, for every path asked
\* about; the inverse map is built on the first call only and later calls
\* answer from that same map.
C17_InverseBuiltOnce ==
  []C17_DependentsInvertDependencies /\ [][C17_BuiltOnce]_vars

\* A module with two dependents, one of which requires it twice, was asked
\* about: both dependents are returned, each once.
C17_Witness ==
  /\ stack = <<>> /\ lastCall.op = "getDependentsFromPath"
  /\ reverseDependencyMap # <<>>
  /\ Len(paths) = 2 /\ paths[1] # paths[2]
  /\ \E i \in 1..2 :
       \E j, k \in 1..Len(GetDependencyPathsFromResource(paths[i])) :
         /\ j # k
         /\ GetDependencyPathsFromResource(paths[i])[j] = lastCall.name
         /\ GetDependencyPathsFromResource(paths[i])[k] = lastCall.name

\* The resolver fails for moduleName asked from currPath.
Unresolved(currPath, moduleName) ==
  ModuleNameToPath(currPath, moduleName) = Null

\* The policy asks the resolver for the path to match against the unmock
\* patterns, the resolver fails, and a manual mock exists for the name.
PolicyCatches(currPath, moduleName) ==
  /\ GetNormalizedModuleID(currPath, moduleName) # NoModuleID
  /\ ~Has(explicitShouldMock, GetNormalizedModuleID(currPath, moduleName))
  /\ ~IsCore(moduleName)
  /\ shouldAutoMock
  /\ ~Has(configShouldMockModuleNames, moduleName)
  /\ Len(unmockListRegExps) > 0
  /\ Unresolved(currPath, moduleName)
  /\ GetResource("JSMock", moduleName) # Null

\* requireModule(currPath, moduleName) meets a resolver failure: making the
\* ModuleID, or resolving the name when no manual mock stands in for it.
RequireModuleUnresolved(currPath, moduleName) ==
  \/ GetNormalizedModuleID(currPath, moduleName) = NoModuleID
  \/ /\ ~ManualMockStandsIn(St, GetNormalizedModuleID(currPath, moduleName),
                            moduleName)
     /\ ~IsCore(moduleName)
     /\ Unresolved(currPath, moduleName)

\* requireMock(currPath, moduleName) meets a resolver failure.
RequireMockUnresolved(currPath, moduleName) ==
  \/ GetNormalizedModuleID(currPath, moduleName) = NoModuleID
  \/ /\ ~Has(explicitlySetMocks, GetNormalizedModuleID(currPath, moduleName))
     /\ GetResource("JSMock", moduleName) = Null
     /\ Unresolved(currPath, moduleName)

\* The call op(moduleName) of the test meets a resolver failure outside the
\* policy's manual-mock case.
MeetsResolverFailure(op, moduleName) ==
  CASE op \in {"mock", "dontMock", "setMock"} ->
         GetNormalizedModuleID(TestPath, moduleName) = NoModuleID
    [] op = "requireActual" -> RequireModuleUnresolved(TestPath, moduleName)
    [] op = "requireMock" -> RequireMockUnresolved(TestPath, moduleName)
    [] op = "genMockFromModule" ->
         Unresolved(currentlyExecutingModulePath, moduleName)
    [] op = "require" ->
         \E d \in {ShouldMock(St, TestPath, moduleName)} :
           \/ d.threw
           \/ d.result /\ RequireMockUnresolved(TestPath, moduleName)
           \/ ~d.result /\ RequireModuleUnresolved(TestPath, moduleName)
    [] OTHER -> FALSE

\* A resolver failure met by a request of the test reaches the test as an
\* exception, except that the policy answers "mock" when it catches the
\* failure for a name that has a manual mock.
C15_RequestPropagates ==
  calls' # calls =>
    /\ MeetsResolverFailure(lastCall'.op, lastCall'.name)
         => ret' = ThrownValue /\ stack' = <<>>
    /\ (lastCall'.op = "require" /\ PolicyCatches(TestPath, lastCall'.name))
         => /\ ~(stack' = <<>> /\ ret' = ThrownValue)
            /\ Has(configShouldMockModuleNames', lastCall'.name)
            /\ configShouldMockModuleNames'[lastCall'.name]

\* The required names of a resource that the resolver fails for.
UnresolvedRequires(path) ==
  {i \in 1..Len(RequiredModules(path)) :
     GetNormalizedModuleID(path, RequiredModules(path)[i]) = NoModuleID}

\* C15 as stated, for the dependency queries: getDependenciesFromPath fails
\* when the resolver fails for a name the resource requires.
C15_QueryPropagates ==
  (/\ stack = <<>> /\ lastCall.op = "getDependenciesFromPath"
   /\ lastCall.name \in ResourcesWithDependencies
   /\ UnresolvedRequires(lastCall.name) # {})
    => ret = ThrownValue

\* C15 as stated: a resolver failure always reaches the caller of the
\* operation it was met in; only the policy catches it, when a manual mock
\* exists.
C15_AlwaysPropagates ==
  [][C15_RequestPropagates]_vars /\ []C15_QueryPropagates

\* getDependenciesFromPath answers for a resource with dependency
\* information whatever the resolver does: the names it fails for are left
\* out, every other required name gives one path; getDependentsFromPath
\* always answers.
C15_QuerySkips ==
  /\ (/\ calls' # calls /\ lastCall'.op = "getDependenciesFromPath"
      /\ lastCall'.name \in ResourcesWithDependencies)
       => /\ ret' = PathsValue
          /\ Thrown \notin PathsIn(paths')
          /\ Len(paths') = Len(RequiredModules(lastCall'.name))
                             - Cardinality(UnresolvedRequires(lastCall'.name))
  /\ (calls' # calls /\ lastCall'.op = "getDependentsFromPath")
       => ret' = PathsValue

\* C15 amended: a resolver failure met while serving requireModule,
\* requireMock, requireModuleOrMock, mock, dontMock, setMock or
\* genMockFromModule reaches the caller, except in the policy when a manual
\* mock exists for the name; the dependency queries leave out the required
\* names the resolver fails for and answer.
C15_PropagatesExceptQueries ==
  [][C15_RequestPropagates /\ C15_QuerySkips]_vars

\* getDependenciesFromPath has answered for a resource that requires a name
\* the resolver fails for, the policy has answered "mock" for a name that
\* has only a manual mock, and the last request, for a name that resolves
\* nowhere, has thrown.
C15_Witness ==
  /\ stack = <<>> /\ ret = ThrownValue
  /\ lastCall.op = "requireActual"
  /\ Unresolved(TestPath, lastCall.name)
  /\ GetResource("JSMock", lastCall.name) = Null
  /\ \E n \in profile :
       /\ Unresolved(TestPath, n)
       /\ GetResource("JSMock", n) # Null
       /\ Has(configShouldMockModuleNames, n)
       /\ configShouldMockModuleNames[n]
  /\ \E p \in ResourcesWithDependencies :
       /\ UnresolvedRequires(p) # {}
       /\ paths # <<>>
       /\ Len(paths) = Len(RequiredModules(p)) - Cardinality(UnresolvedRequires(p))
       /\ \A i \in 1..Len(paths) :
            \E j \in 1..Len(RequiredModules(p)) :
              \E id \in {GetNormalizedModuleID(p, RequiredModules(p)[j])} :
                /\ id # NoModuleID
                /\ GetRealPathFromNormalizedModuleID(id) = paths[i]

\* The policy decides the request of moduleName made by currPath with the
\* vendor-path rule or with the unmock patterns: no earlier rule applies and
\* the resolver has a path for the name.
PatternsDecide(currPath, moduleName) ==
  /\ GetNormalizedModuleID(currPath, moduleName) # NoModuleID
  /\ ~Has(explicitShouldMock, GetNormalizedModuleID(currPath, moduleName))
  /\ ~IsCore(moduleName)
  /\ shouldAutoMock
  /\ ~Has(configShouldMockModuleNames, moduleName)
  /\ Len(unmockListRegExps) > 0
  /\ ModuleNameToPath(currPath, moduleName) # Null

\* C21: a decision that the policy computes with the vendor-path rule or
\* with the unmock patterns is the decision the per-name cache holds for the
\* requested name when the policy returns, so that the same request repeated
\* with the same overrides and auto-mock flag is decided the same way.
C21_PatternDecisionCached ==
  [][\A n \in profile :
       (/\ calls' # calls /\ lastCall' = Stmt("require", n)
        /\ PatternsDecide(TestPath, n))
       => \A d \in {ShouldMock(St, TestPath, n)} :
            /\ Has(configShouldMockModuleNames', n)
            /\ configShouldMockModuleNames'[n] = d.result
            /\ ShouldMock([St EXCEPT
                             !.configShouldMockModuleNames =
                               configShouldMockModuleNames'],
                          TestPath, n).result = d.result]_vars

\* The resolver reaches the package-manifest fallback for moduleName asked
\* from currPath: no resource has the name, node's resolution fails and a
\* manifest has the name.
ManifestFallback(currPath, moduleName) ==
  /\ GetResource("JS", moduleName) = Null
  /\ ResolveSync(Dirname(currPath), moduleName) = Null
  /\ ProjectConfigByName(ModuleProjectPart(moduleName)) # Null

\* The directory dirname lies below the directory basedir.
Descendant(dirname, basedir) ==
  /\ Len(Characters(dirname)) > Len(Characters(basedir))
  /\ SubSeq(Characters(dirname), 1, Len(Characters(basedir)))
       = Characters(basedir)
  /\ Characters(dirname)[Len(Characters(basedir)) + 1] = "/"

\* The directory of the manifest found for moduleName.
ManifestDirname(moduleName) ==
  Dirname(ProjectConfigByName(ModuleProjectPart(moduleName)))

\* C23: in the package-manifest fallback the request is resolved from the
\* directory of the manifest only when that directory is not a descendant of
\* the importer's directory; when it is a descendant the resolver fails and
\* a requireModule of the name throws.
C23_DescendantManifestRefused ==
  [][(/\ calls' # calls /\ lastCall'.op = "requireActual"
      /\ ManifestFallback(TestPath, lastCall'.name))
     => /\ ModuleNameToPath(TestPath, lastCall'.name) # Null
             => ~Descendant(ManifestDirname(lastCall'.name), Dirname(TestPath))
        /\ Descendant(ManifestDirname(lastCall'.name), Dirname(TestPath))
             => (stack' = <<>> /\ ret' = ThrownValue)]_vars

\* The files that make requests in a test of the profile: the test file and
\* the files the names of the profile resolve to.
RequestingFiles ==
  {TestPath} \cup ({ModuleNameToPath(TestPath, n) : n \in profile} \ {Null})

\* A decision is cached for the name n, and for the importer c auto-mock is
\* on, the name has a ModuleID and no override is set for it.
DecidedByCache(c, n) ==
  /\ Has(configShouldMockModuleNames, n)
  /\ shouldAutoMock
  /\ GetNormalizedModuleID(c, n) # NoModuleID
  /\ ~Has(explicitShouldMock, GetNormalizedModuleID(c, n))

\* C22: the decision cached for a requested name is the decision of the
\* policy for every importer that asks for the name while auto-mock is on
\* and no override is set for the ModuleID the name has for that importer,
\* whatever path the name resolves to from there; the policy leaves the
\* cache as it is.
C22_CachedDecisionShared ==
  \A n \in profile :
    (Has(configShouldMockModuleNames, n) /\ shouldAutoMock) =>
      \A c \in RequestingFiles :
        \A id \in {GetNormalizedModuleID(c, n)} :
          (id # NoModuleID /\ ~Has(explicitShouldMock, id)) =>
            ShouldMock(St, c, n) =
              Decision(FALSE, configShouldMockModuleNames[n],
                       configShouldMockModuleNames)

\* A module has asked for a name that resolves, from its directory, to
\* another path than from the test's and to one no unmock pattern matches;
\* the decision cached for the name was "real", and the module got the real
\* module at its own path.
C22_Witness ==
  /\ stack # <<>> /\ shouldAutoMock
  /\ \E f \in {stack[Len(stack)]} :
       /\ f.t = "exec" /\ f.pc > 1
       /\ Finished(f).op = "require"
       /\ DecidedByCache(f.path, Finished(f).name)
       /\ ~configShouldMockModuleNames[Finished(f).name]
       /\ \E modulePath \in {ModuleNameToPath(f.path, Finished(f).name)} :
            /\ modulePath # Null
            /\ modulePath # ModuleNameToPath(TestPath, Finished(f).name)
            /\ ~UnmockMatches(St, modulePath)
            /\ UnmockMatches(St, ModuleNameToPath(TestPath, Finished(f).name))
            /\ ret.k = "exports" /\ ret.p = modulePath

\* The triples a ModuleID is made of: the kind, the real path (the name, for
\* a built-in) or none, the manual mock's path or none.
ModuleTypes == {"user", "node"}
RealPaths == Files \cup CoreNames \cup {"/p/a:b.js", Null}
MockPaths == {ResourceJSMock(n) : n \in Names}
Triples == ModuleTypes \X RealPaths \X MockPaths

\* C24: the real path extracted from the ModuleID made of a triple is the
\* real path of the triple, and none when the triple has none; two different
\* triples never make the same ModuleID.
C24_ModuleIDRoundTrips ==
  /\ \A x \in Triples :
       GetRealPathFromNormalizedModuleID(ModuleID(x[1], x[2], x[3])) = x[2]
  /\ \A x, y \in Triples :
       ModuleID(x[1], x[2], x[3]) = ModuleID(y[1], y[2], y[3]) => x = y
  /\ (stack = <<>> /\ lastCall.op = "getDependenciesFromPath"
        /\ ret = PathsValue)
       => \A i \in 1..Len(paths) : paths[i] \in RealPaths \ {Null}

\* The _generateMock that is lowest on the stack stk: the synthesis every
\* other one in progress is nested in.
OutermostSynthesis(stk) ==
  stk[CHOOSE i \in 1..Len(stk) :
        /\ stk[i].t = "gen"
        /\ \A j \in 1..(i - 1) : stk[j].t # "gen"]

\* The _generateMock calls that are on the stack stk and no longer on the
\* stack after the step.
SynthesesEnded(stk, after) ==
  {i \in 1..Len(stk) : i > Len(after) /\ stk[i].t = "gen"}

\* C25: when the synthesis of a module's automock ends by a return, the
\* mock-shape cache holds for the module the shape extracted from the
\* exports its real evaluation returned; when it ends by an exception, of
\* the real module's evaluation or of the extraction, the sentinel shape
\* written at its start is not left in the cache; and when the last
\* synthesis in progress ends, either way, the registries in use are the
\* ones its caller had.
C25_CacheHoldsRealShapes ==
  [][/\ \A i \in SynthesesEnded(stack, stack') :
          IF stack' = <<>> /\ ret' = ThrownValue
          THEN ~Has(mockMetaDataCache', stack[i].path)
          ELSE /\ Has(mockMetaDataCache', stack[i].path)
               /\ mockMetaDataCache'[stack[i].path] = GetMetadata(St, ret)
     /\ (Isolated(stack) /\ ~Isolated(stack'))
          => regId' = OutermostSynthesis(stack).origReg]_vars

\* The evaluations of a manual mock, started by requireMock, that are in
\* progress.
ManualMockFrames ==
  {i \in 1..Len(stack) : stack[i].t = "exec" /\ stack[i].via = "requireMock"}

\* The last call of the test was requireMock for a name that has a manual
\* mock and no mock set by the test, and it is over.
ManualMockAsked ==
  /\ stack = <<>> /\ lastCall.op = "requireMock" /\ envGlobal
  /\ ManualMockPath(TestPath, lastCall.name) # Null
  /\ ~Has(explicitlySetMocks, GetNormalizedModuleID(TestPath, lastCall.name))

\* C26: a manual mock file is not evaluated again, for the same registries,
\* while its evaluation is in progress: a request for it made in a cycle of
\* manual mocks starts no further evaluation; and a requireMock call for a
\* manual mock returns, the exports the mock registry holds for the file.
C26_ManualMockOnce ==
  /\ \A i, j \in ManualMockFrames :
       (stack[i].path = stack[j].path /\ stack[i].obj.r = stack[j].obj.r)
         => i = j
  /\ ManualMockAsked =>
       /\ ret # ThrownValue
       /\ Has(mockRegistry, ManualMockPath(TestPath, lastCall.name))
       /\ ret = mockRegistry[ManualMockPath(TestPath, lastCall.name)]

====
